---- MODULE Spec2Model ----
(***************************************************************************)
(* browserclaw: the snapshot parser, the ref disambiguation, the tree      *)
(* compactor, the ref resolution engine and the cross-call ref cache.      *)
(*                                                                         *)
(* Text is modelled as a sequence of one-character strings, so that the    *)
(* string operations of the source (startsWith, includes, trim, split,     *)
(* join, the node regular expression) are computed rather than assumed.    *)
(* An optional JavaScript value (T | undefined) is a set with at most one  *)
(* element: {} is undefined, {v} is the value v.                           *)
(***************************************************************************)
EXTENDS Integers, Sequences, FiniteSets, TLC

VARIABLES
    roleRefsByTarget,   \* connection.ts:21  Map in insertion order: Seq of [key, refs, frameSelector, mode]
    pageStates,         \* connection.ts:16  WeakMap<Page, PageState>: page -> {} or {state}
    last,               \* the operation that produced the current state, with its inputs and outcome
    dom,                \* the page as the engine sees it: its nodes in document order
    input,              \* snapshot builders: the raw accessibility text handed to the builder
    options,            \* snapshot builders: SnapshotBuildOptions
    built,              \* snapshot builders: {} or {the value returned by the builder}
    lineOf,             \* bookkeeping: the input line (= node) each ref of `built` was given to
    tree,               \* compactTree: the text it was last applied to / returned
    cached,             \* connection.ts:13  {} or {[browser, cdpUrl]}
    connectingByUrl,    \* connection.ts:14  Map: normalized endpoint -> the connectWithRetry run in flight
    runs,               \* the connectWithRetry runs started so far, each with its position and history
    callers,            \* the position of each caller of connectBrowser
    tasks               \* the snapshot and click calls started so far, each with its position

vars == <<roleRefsByTarget, pageStates, last, dom, input, options, built, lineOf, tree,
          cached, connectingByUrl, runs, callers, tasks>>

cacheVars == <<roleRefsByTarget, pageStates>>
buildVars == <<dom, input, options, built, lineOf, tree>>
connVars == <<cached, connectingByUrl, runs, callers>>

----------------------------------------------------------------------------
(* Text helpers                                                            *)

Digits == {"0", "1", "2", "3", "4", "5", "6", "7", "8", "9"}

\* \s of a JavaScript regular expression, restricted to the characters used here
Whitespace == {" ", "\t"}

\* String.prototype.slice(from - 1, to), clipped to the text as slice clips
Slice(s, from, to) ==
    LET end == IF to > Len(s) THEN Len(s) ELSE to
    IN IF from > end THEN <<>> ELSE SubSeq(s, from, end)

\* String.prototype.startsWith
StartsWith(s, p) ==
    /\ Len(p) <= Len(s)
    /\ SubSeq(s, 1, Len(p)) = p

\* String.prototype.endsWith
EndsWith(s, p) ==
    /\ Len(p) <= Len(s)
    /\ SubSeq(s, Len(s) - Len(p) + 1, Len(s)) = p

\* String.prototype.includes
Includes(s, p) ==
    \E i \in 1..(Len(s) - Len(p) + 1) : SubSeq(s, i, i + Len(p) - 1) = p

\* number of whitespace characters from position i on
RECURSIVE WsFrom(_, _)
WsFrom(s, i) ==
    IF i <= Len(s) /\ s[i] \in Whitespace THEN 1 + WsFrom(s, i + 1) ELSE 0

\* number of leading whitespace characters
LeadingWs(s) == WsFrom(s, 1)

\* number of trailing whitespace characters
RECURSIVE WsBefore(_, _)
WsBefore(s, i) ==
    IF i >= 1 /\ s[i] \in Whitespace THEN 1 + WsBefore(s, i - 1) ELSE 0

TrailingWs(s) == WsBefore(s, Len(s))

\* String.prototype.trim
Trim(s) ==
    IF LeadingWs(s) = Len(s) THEN <<>>
    ELSE SubSeq(s, LeadingWs(s) + 1, Len(s) - TrailingWs(s))

\* String.prototype.trimEnd
TrimEnd(s) == SubSeq(s, 1, Len(s) - TrailingWs(s))

\* decimal rendering of a natural number, as `${n}` does
RECURSIVE ToDecimal(_)
ToDecimal(n) ==
    LET d == CHOOSE c \in Digits :
                 c = <<"0", "1", "2", "3", "4", "5", "6", "7", "8", "9">>[(n % 10) + 1]
    IN IF n < 10 THEN <<d>> ELSE ToDecimal(n \div 10) \o <<d>>

----------------------------------------------------------------------------
(* The cross-call ref cache and the live page sessions (connection.ts)     *)

MAX_ROLE_REFS_CACHE == 50

\* raw.replace(/\/$/, '')
normalizeCdpUrl(raw) ==
    IF raw # <<>> /\ raw[Len(raw)] = "/" THEN SubSeq(raw, 1, Len(raw) - 1) ELSE raw

\* `${normalizeCdpUrl(cdpUrl)}::${targetId}`
roleRefsKey(cdpUrl, targetId) ==
    normalizeCdpUrl(cdpUrl) \o <<":", ":">> \o targetId

\* the keys of the Map, in insertion order
CacheKeys(cache) == [i \in 1..Len(cache) |-> cache[i].key]

KeySet(cache) == {cache[i].key : i \in 1..Len(cache)}

\* Map.prototype.get: {} when the key is absent
CacheGet(cache, key) == {cache[i] : i \in {j \in 1..Len(cache) : cache[j].key = key}}

\* a set that deletes the key first, so that a re-stored key moves to the end
CacheSet_MoveToEnd(cache, entry) ==
    Append(SelectSeq(cache, LAMBDA e : e.key # entry.key), entry)

\* Map.prototype.set: an existing key keeps its position, a new key is appended
CacheSet(cache, entry) ==
    IF entry.key \in KeySet(cache)
    THEN [i \in 1..Len(cache) |-> IF cache[i].key = entry.key THEN entry ELSE cache[i]]
    ELSE Append(cache, entry)

\* an eviction loop with `>=` in place of `>`
RECURSIVE EvictToBound_OffByOne(_)
EvictToBound_OffByOne(cache) ==
    IF Len(cache) >= MAX_ROLE_REFS_CACHE THEN EvictToBound_OffByOne(Tail(cache)) ELSE cache

\* while (size > MAX) delete(keys().next().value)
RECURSIVE EvictToBound(_)
EvictToBound(cache) ==
    IF Len(cache) > MAX_ROLE_REFS_CACHE THEN EvictToBound(Tail(cache)) ELSE cache

\* a purge test without the '::' separator
PurgeTest_NoSeparator(normalized, key) == StartsWith(key, normalized)

\* true iff the 'disconnected' handler of a connection to `normalized` deletes `key`:
\* key.startsWith(normalized + '::')
PurgeTest(normalized, key) == StartsWith(key, normalized \o <<":", ":">>)

\* for (const key of roleRefsByTarget.keys()) if (PurgeTest) roleRefsByTarget.delete(key)
PurgeDisconnected(cache, normalized) ==
    SelectSeq(cache, LAMBDA e : ~PurgeTest(normalized, e.key))

\* the state ensurePageState creates: no table, no scope, no mode
FreshPageState == [roleRefs |-> {}, roleRefsFrameSelector |-> {}, roleRefsMode |-> {}]

\* ensurePageState: the existing state, or a new one
ensurePageState(states, page) ==
    IF states[page] # {} THEN states
    ELSE [states EXCEPT ![page] = {FreshPageState}]

\* the state of a page that has one
StateOf(states, page) == CHOOSE s \in states[page] : TRUE

----------------------------------------------------------------------------
(* Inputs of the cache operations                                          *)

Pages == {"p1", "p2"}

\* endpoints as callers pass them: "h", "h/" (same endpoint once normalized), "hx"
URL_H == <<"h">>
URL_H_SLASH == <<"h", "/">>
URL_HX == <<"h", "x">>
\* a third endpoint, whose pages filled the cache before the modelled pages were used
URL_F == <<"f">>

TARGET_A == <<"A">>
TARGET_A_PADDED == <<" ", "A">>

\* (page, cdpUrl, targetId?) as the callers of store and restore pass them: p1 is
\* a tab of the browser at "h", snapshotted with and without a target id; p2 is
\* a tab of the browser at "hx"
TargetInputs ==
    { <<"p1", URL_H, {TARGET_A}>>, <<"p1", URL_H_SLASH, {TARGET_A_PADDED}>>,
      <<"p1", URL_H, {}>>, <<"p2", URL_HX, {TARGET_A}>> }

\* endpoints a connection was made to (already normalized by connectBrowser)
Endpoints == {URL_H, URL_HX, URL_F}

ROLE_BUTTON == <<"b", "u", "t", "t", "o", "n">>
ROLE_LINK == <<"l", "i", "n", "k">>
NAME_SUBMIT == <<"S", "u", "b", "m", "i", "t">>
NAME_MORE == <<"M", "o", "r", "e">>

REF_E1 == <<"e", "1">>
REF_E2 == <<"e", "2">>
REF_E5 == <<"e", "5">>
REF_E7 == <<"e", "7">>
REF_F1E2 == <<"f", "1", "e", "2">>

\* RoleRefInfo
RefInfo(role, name, nth) == [role |-> role, name |-> name, nth |-> nth]

\* two duplicate buttons: { e1: button "Submit" nth 0, e2: button "Submit" nth 1 }
TABLE_DUP ==
    (REF_E1 :> RefInfo(ROLE_BUTTON, {NAME_SUBMIT}, {0})) @@
    (REF_E2 :> RefInfo(ROLE_BUTTON, {NAME_SUBMIT}, {1}))

\* one link: { e1: link "More" }
TABLE_LINK == (REF_E1 :> RefInfo(ROLE_LINK, {NAME_MORE}, {}))

\* a table of engine-issued refs: { e5: button "Submit" }
TABLE_AI == (REF_E5 :> RefInfo(ROLE_BUTTON, {NAME_SUBMIT}, {}))

\* a snapshot that found nothing addressable: {}
TABLE_EMPTY == <<>>

FRAME == "iframe#pay"

\* (refs, frameSelector?, mode) as snapshotRole and snapshotAi pass them to store;
\* the snapshotRole of ai-snapshot.ts passes a frame selector with either mode
StoreContents ==
    { <<TABLE_DUP, {}, {"role"}>>, <<TABLE_LINK, {FRAME}, {"role"}>>,
      <<TABLE_EMPTY, {}, {"role"}>>, <<TABLE_AI, {}, {"aria"}>>,
      <<TABLE_AI, {FRAME}, {"aria"}>> }

\* ref tokens as callers pass them to an action
Tokens ==
    { REF_E1, <<"@">> \o REF_E1, <<"r", "e", "f", "=">> \o REF_E2, REF_E7,
      <<"@">> \o REF_E7, REF_F1E2, <<"@", "r", "e", "f", "=">> \o REF_E1 }

----------------------------------------------------------------------------
(* storeRoleRefsForTarget, restoreRoleRefsForTarget, the 'disconnected'    *)
(* handler                                                                 *)

\* the cache entry store writes: frameSelector and mode only when truthy
CacheEntry(key, refs, frameSelector, mode) ==
    [key |-> key, refs |-> refs, frameSelector |-> frameSelector, mode |-> mode]

\* a store that updates the session and never the cache
StoreCache_SessionOnly(cache, cdpUrl, targetIdOpt, refs, frameSelector, mode) == cache

\* a store that writes a cache entry only when the key has none yet
StoreCache_KeepFirst(cache, cdpUrl, targetIdOpt, refs, frameSelector, mode) ==
    LET targetId == IF targetIdOpt = {} THEN <<>>
                    ELSE Trim(CHOOSE t \in targetIdOpt : TRUE)
    IN IF targetId = <<>> \/ roleRefsKey(cdpUrl, targetId) \in KeySet(cache) THEN cache
       ELSE EvictToBound(
                CacheSet(cache, CacheEntry(roleRefsKey(cdpUrl, targetId), refs, frameSelector, mode)))

\* the cache after store's Map.set and eviction loop; unchanged without a target id
StoreCache(cache, cdpUrl, targetIdOpt, refs, frameSelector, mode) ==
    LET targetId == IF targetIdOpt = {} THEN <<>>
                    ELSE Trim(CHOOSE t \in targetIdOpt : TRUE)
    IN IF targetId = <<>> THEN cache
       ELSE EvictToBound(
                CacheSet(cache, CacheEntry(roleRefsKey(cdpUrl, targetId), refs, frameSelector, mode)))

\* a store that adds the new table to the one the session has
StoreSession_Merge(states, page, refs, frameSelector, mode) ==
    LET ensured == ensurePageState(states, page)
        old == StateOf(ensured, page).roleRefs
    IN [ensured EXCEPT ![page] =
           {[roleRefs |-> {IF old = {} THEN refs ELSE refs @@ (CHOOSE t \in old : TRUE)},
             roleRefsFrameSelector |-> frameSelector,
             roleRefsMode |-> mode]}]

\* a store that keeps the frame selector of the previous snapshot when the call
\* supplies none
StoreSession_KeepScope(states, page, refs, frameSelector, mode) ==
    LET ensured == ensurePageState(states, page)
    IN [ensured EXCEPT ![page] =
           {[roleRefs |-> {refs},
             roleRefsFrameSelector |->
                 IF frameSelector = {} THEN StateOf(ensured, page).roleRefsFrameSelector
                 ELSE frameSelector,
             roleRefsMode |-> mode]}]

\* the page states after store: the three fields are overwritten together
StoreSession(states, page, refs, frameSelector, mode) ==
    [ensurePageState(states, page) EXCEPT ![page] =
        {[roleRefs |-> {refs}, roleRefsFrameSelector |-> frameSelector, roleRefsMode |-> mode]}]

\* the key store and restore use, {} when the target id is missing or blank
KeyOf(cdpUrl, targetIdOpt) ==
    LET targetId == IF targetIdOpt = {} THEN <<>>
                    ELSE Trim(CHOOSE t \in targetIdOpt : TRUE)
    IN IF targetId = <<>> THEN {} ELSE {roleRefsKey(cdpUrl, targetId)}

storeRoleRefsForTarget(page, cdpUrl, targetIdOpt, refs, frameSelector, mode) ==
    /\ pageStates' = StoreSession(pageStates, page, refs, frameSelector, mode)
    /\ roleRefsByTarget' =
           StoreCache(roleRefsByTarget, cdpUrl, targetIdOpt, refs, frameSelector, mode)
    /\ last' = [op |-> "store", page |-> page, key |-> KeyOf(cdpUrl, targetIdOpt),
                refs |-> refs, frameSelector |-> frameSelector, mode |-> mode,
                evicted |->
                    IF KeyOf(cdpUrl, targetIdOpt) = {} THEN 0
                    ELSE Len(roleRefsByTarget) - Len(roleRefsByTarget')
                         + (IF KeyOf(cdpUrl, targetIdOpt) \subseteq KeySet(roleRefsByTarget)
                            THEN 0 ELSE 1)]
    /\ UNCHANGED <<buildVars, connVars, tasks>>

\* a restore that treats an empty live table as no table
RestoreSession_EmptyIsAbsent(states, cache, page, cdpUrl, targetIdOpt) ==
    LET keyOpt == KeyOf(cdpUrl, targetIdOpt)
        entryOpt == IF keyOpt = {} THEN {}
                    ELSE CacheGet(cache, CHOOSE k \in keyOpt : TRUE)
    IN IF keyOpt = {} \/ entryOpt = {} THEN states
       ELSE LET entry == CHOOSE e \in entryOpt : TRUE
                ensured == ensurePageState(states, page)
            IN IF StateOf(ensured, page).roleRefs \notin {{}, {<<>>}} THEN ensured
               ELSE [ensured EXCEPT ![page] =
                        {[roleRefs |-> {entry.refs},
                          roleRefsFrameSelector |-> entry.frameSelector,
                          roleRefsMode |-> entry.mode]}]

\* a restore that sets the table and the mode and leaves the scope as it is
RestoreSession_KeepScope(states, cache, page, cdpUrl, targetIdOpt) ==
    LET keyOpt == KeyOf(cdpUrl, targetIdOpt)
        entryOpt == IF keyOpt = {} THEN {}
                    ELSE CacheGet(cache, CHOOSE k \in keyOpt : TRUE)
    IN IF keyOpt = {} \/ entryOpt = {} THEN states
       ELSE LET entry == CHOOSE e \in entryOpt : TRUE
                ensured == ensurePageState(states, page)
            IN IF StateOf(ensured, page).roleRefs # {} THEN ensured
               ELSE [ensured EXCEPT ![page] =
                        {[roleRefs |-> {entry.refs},
                          roleRefsFrameSelector |-> StateOf(ensured, page).roleRefsFrameSelector,
                          roleRefsMode |-> entry.mode]}]

\* the page states after restore
RestoreSession(states, cache, page, cdpUrl, targetIdOpt) ==
    LET keyOpt == KeyOf(cdpUrl, targetIdOpt)
        entryOpt == IF keyOpt = {} THEN {}
                    ELSE CacheGet(cache, CHOOSE k \in keyOpt : TRUE)
    IN IF keyOpt = {} \/ entryOpt = {} THEN states
       ELSE LET entry == CHOOSE e \in entryOpt : TRUE
                ensured == ensurePageState(states, page)
            IN IF StateOf(ensured, page).roleRefs # {} THEN ensured
               ELSE [ensured EXCEPT ![page] =
                        {[roleRefs |-> {entry.refs},
                          roleRefsFrameSelector |-> entry.frameSelector,
                          roleRefsMode |-> entry.mode]}]

restoreRoleRefsForTarget(page, cdpUrl, targetIdOpt) ==
    /\ pageStates' = RestoreSession(pageStates, roleRefsByTarget, page, cdpUrl, targetIdOpt)
    /\ last' = [op |-> "restore", page |-> page, key |-> KeyOf(cdpUrl, targetIdOpt)]
    /\ UNCHANGED <<roleRefsByTarget, buildVars, connVars, tasks>>

\* a 'disconnected' handler that also drops the sessions of the pages
Disconnected_DropsSessions(normalized) ==
    /\ roleRefsByTarget' = PurgeDisconnected(roleRefsByTarget, normalized)
    /\ pageStates' = [p \in DOMAIN pageStates |-> {}]
    /\ last' = [op |-> "disconnected", endpoint |-> normalized,
                purged |-> Len(roleRefsByTarget) - Len(roleRefsByTarget')]
    /\ UNCHANGED <<buildVars, connVars, tasks>>

\* browser.on('disconnected') of a connection made to `normalized`
Disconnected(normalized) ==
    /\ roleRefsByTarget' = PurgeDisconnected(roleRefsByTarget, normalized)
    /\ last' = [op |-> "disconnected", endpoint |-> normalized,
                purged |-> Len(roleRefsByTarget) - Len(roleRefsByTarget')]
    /\ UNCHANGED <<pageStates, buildVars, connVars, tasks>>

----------------------------------------------------------------------------
(* refLocator                                                              *)

\* a normalization that strips the sigil only
NormalizeRef_SigilOnly(ref) ==
    IF StartsWith(ref, <<"@">>) THEN SubSeq(ref, 2, Len(ref)) ELSE ref

\* ref.startsWith('@') ? ref.slice(1) : ref.startsWith('ref=') ? ref.slice(4) : ref
NormalizeRef(ref) ==
    IF StartsWith(ref, <<"@">>) THEN SubSeq(ref, 2, Len(ref))
    ELSE IF StartsWith(ref, <<"r", "e", "f", "=">>) THEN SubSeq(ref, 5, Len(ref))
    ELSE ref

\* /^e\d+$/
IsERef(s) ==
    /\ Len(s) >= 2
    /\ s[1] = "e"
    /\ \A i \in 2..Len(s) : s[i] \in Digits

\* a truthy optional string: present and not ''
Truthy(opt) == opt # {} /\ opt # {<<>>}

\* an aria-ref lookup that is always made from the page root
AriaRefLocator_Unscoped(scope, ref) ==
    [by |-> "aria-ref", scope |-> {}, ref |-> ref, role |-> <<>>, name |-> {}, nth |-> {}]

\* the locator refLocator hands to the engine; building it is the only use of
\* the engine refLocator makes
AriaRefLocator(scope, ref) ==
    [by |-> "aria-ref", scope |-> scope, ref |-> ref, role |-> <<>>, name |-> {}, nth |-> {}]

RoleLocator(scope, info) ==
    [by |-> "role", scope |-> scope, ref |-> <<>>, role |-> info.role,
     name |-> IF Truthy(info.name) THEN info.name ELSE {}, nth |-> info.nth]

\* a refLocator that falls back to the aria-ref lookup when the table has no entry
refLocator_FallBack(states, page, ref) ==
    LET normalized == NormalizeRef(ref)
        state == IF states[page] = {} THEN FreshPageState ELSE StateOf(states, page)
        infoOpt == IF state.roleRefs = {} THEN {}
                   ELSE LET refs == CHOOSE t \in state.roleRefs : TRUE
                        IN IF normalized \in DOMAIN refs THEN {refs[normalized]} ELSE {}
    IN IF IsERef(normalized) /\ (state.roleRefsMode = {"aria"} \/ infoOpt # {})
       THEN IF state.roleRefsMode = {"aria"}
            THEN [outcome |-> "locator",
                  locator |-> {AriaRefLocator(state.roleRefsFrameSelector, normalized)}]
            ELSE [outcome |-> "locator",
                  locator |-> {RoleLocator(state.roleRefsFrameSelector,
                                           CHOOSE i \in infoOpt : TRUE)}]
       ELSE [outcome |-> "locator", locator |-> {AriaRefLocator({}, normalized)}]

\* the outcome of refLocator(page, ref): a thrown "Unknown ref" error, or a locator
refLocator(states, page, ref) ==
    LET normalized == NormalizeRef(ref)
        state == IF states[page] = {} THEN FreshPageState ELSE StateOf(states, page)
        infoOpt == IF state.roleRefs = {} THEN {}
                   ELSE LET refs == CHOOSE t \in state.roleRefs : TRUE
                        IN IF normalized \in DOMAIN refs THEN {refs[normalized]} ELSE {}
    IN IF IsERef(normalized)
       THEN IF state.roleRefsMode = {"aria"}
            THEN [outcome |-> "locator",
                  locator |-> {AriaRefLocator(state.roleRefsFrameSelector, normalized)}]
            ELSE IF infoOpt = {}
                 THEN [outcome |-> "UnknownRef", locator |-> {}]
                 ELSE [outcome |-> "locator",
                       locator |-> {RoleLocator(state.roleRefsFrameSelector,
                                                CHOOSE i \in infoOpt : TRUE)}]
       ELSE [outcome |-> "locator", locator |-> {AriaRefLocator({}, normalized)}]

\* one call of refLocator by an action
Resolve(page, ref) ==
    /\ last' = [op |-> "resolve", page |-> page, ref |-> ref,
                result |-> refLocator(pageStates, page, ref)]
    /\ UNCHANGED <<cacheVars, buildVars, connVars, tasks>>

----------------------------------------------------------------------------
(* The cache specification                                                 *)

\* the entries of the pages of endpoint "f": f::1, f::2, ..., in insertion order
Fillers(n) ==
    [i \in 1..n |-> CacheEntry(roleRefsKey(URL_F, ToDecimal(i)), TABLE_EMPTY, {}, {"role"})]

\* the values of the builder variables while the cache is exercised
BuildIdle ==
    /\ dom = <<>>
    /\ lineOf = <<>>
    /\ input = <<>>
    /\ options = [interactive |-> FALSE, compact |-> FALSE, maxDepth |-> {}]
    /\ built = {}
    /\ tree = <<>>

\* bound: the number of callers of connectBrowser
MaxCallers == 2

Callers == 1..MaxCallers

\* no connection, no connect in flight, no caller has called yet, and no snapshot
\* or click call started
ConnIdle ==
    /\ cached = {}
    /\ connectingByUrl = <<>>
    /\ runs = <<>>
    /\ callers = [c \in Callers |-> [pc |-> "idle"]]
    /\ tasks = <<>>

\* the state after construction
InitEmpty ==
    /\ last = [op |-> "init"]
    /\ BuildIdle
    /\ ConnIdle
    /\ roleRefsByTarget = <<>>
    /\ pageStates = [p \in Pages |-> {}]

\* the state after page p1 stored h::A and then 49 pages of endpoint "f" stored
\* their snapshots: the cache is full and h::A is its oldest key
InitFull ==
    /\ last = [op |-> "init"]
    /\ BuildIdle
    /\ ConnIdle
    /\ roleRefsByTarget =
           <<CacheEntry(roleRefsKey(URL_H, TARGET_A), TABLE_DUP, {}, {"role"})>>
           \o Fillers(MAX_ROLE_REFS_CACHE - 1)
    /\ pageStates =
           [p \in Pages |->
               IF p = "p1"
               THEN {[roleRefs |-> {TABLE_DUP}, roleRefsFrameSelector |-> {},
                      roleRefsMode |-> {"role"}]}
               ELSE {}]

Store ==
    \E t \in TargetInputs, c \in StoreContents :
        storeRoleRefsForTarget(t[1], t[2], t[3], c[1], c[2], c[3])

Restore ==
    \E t \in TargetInputs :
        restoreRoleRefsForTarget(t[1], t[2], t[3])

ResolveRef ==
    \E page \in Pages, ref \in Tokens : Resolve(page, ref)

Disconnect ==
    \E normalized \in Endpoints : Disconnected(normalized)

NextCache == Store \/ Restore \/ ResolveRef \/ Disconnect

\* store, restore, resolve and disconnect in any order, from an empty and from a
\* full cache
SpecCache == (InitEmpty \/ InitFull) /\ [][NextCache]_vars

KEY_H_A == roleRefsKey(URL_H, TARGET_A)
KEY_HX_A == roleRefsKey(URL_HX, TARGET_A)

\* the live session of a page: its state, or the fresh state when it has none
Session(states, page) == IF states[page] = {} THEN FreshPageState ELSE StateOf(states, page)

\* the connection component of a cache key: the text before the first '::'
KeyConnection(key) ==
    LET i == CHOOSE j \in 1..Len(key) :
                 /\ Slice(key, j, j + 1) = <<":", ":">>
                 /\ \A k \in 1..(j - 1) : Slice(key, k, k + 1) # <<":", ":">>
    IN SubSeq(key, 1, i - 1)

\* C1: the cache never holds more than MAX_ROLE_REFS_CACHE entries, and a store
\* of a key that is not in a full cache removes exactly the first-inserted key,
\* keeps every other key in its place and appends the new key.
C1_BoundedFifoEviction ==
    /\ [](Len(roleRefsByTarget) <= MAX_ROLE_REFS_CACHE)
    /\ [][(/\ last'.op = "store"
           /\ last'.key # {}
           /\ last'.key \cap KeySet(roleRefsByTarget) = {}
           /\ Len(roleRefsByTarget) = MAX_ROLE_REFS_CACHE)
          => /\ Len(roleRefsByTarget') = MAX_ROLE_REFS_CACHE
             /\ CacheKeys(roleRefsByTarget') =
                    Tail(CacheKeys(roleRefsByTarget)) \o <<CHOOSE k \in last'.key : TRUE>>]_vars

\* C1 witness: a 51st distinct key (hx::A) was stored into the full cache and
\* evicted one key, h::A, the first inserted.
C1_Witness ==
    /\ last.op = "store"
    /\ last.key = {KEY_HX_A}
    /\ last.evicted = 1
    /\ Len(roleRefsByTarget) = MAX_ROLE_REFS_CACHE
    /\ KEY_H_A \notin KeySet(roleRefsByTarget)
    /\ roleRefsByTarget[1].key = roleRefsKey(URL_F, <<"1">>)
    /\ roleRefsByTarget[MAX_ROLE_REFS_CACHE].key = KEY_HX_A

\* C2: a store under a key that is already cached replaces the entry in place:
\* the key order and the size are unchanged, so nothing is evicted even at full
\* capacity; and the key that was just re-stored is still the one evicted by the
\* next store of a new key when it is the oldest key of a full cache.
C2_FifoNotLru ==
    /\ [][(/\ last'.op = "store"
           /\ last'.key # {}
           /\ last'.key \subseteq KeySet(roleRefsByTarget))
          => /\ CacheKeys(roleRefsByTarget') = CacheKeys(roleRefsByTarget)
             /\ last'.evicted = 0
             /\ \E e \in CacheGet(roleRefsByTarget', CHOOSE k \in last'.key : TRUE) :
                    /\ e.refs = last'.refs
                    /\ e.frameSelector = last'.frameSelector
                    /\ e.mode = last'.mode]_vars
    /\ [][(/\ last.op = "store"
           /\ Len(roleRefsByTarget) = MAX_ROLE_REFS_CACHE
           /\ last.key = {roleRefsByTarget[1].key}
           /\ last'.op = "store"
           /\ last'.key # {}
           /\ last'.key \cap KeySet(roleRefsByTarget) = {})
          => last.key \cap KeySet(roleRefsByTarget') = {}]_vars

\* C2 witness: h::A, the oldest key of the full cache, was re-stored with another
\* table; it is still the first key and the cache is still full.
C2_Witness ==
    /\ last.op = "store"
    /\ last.key = {KEY_H_A}
    /\ last.evicted = 0
    /\ Len(roleRefsByTarget) = MAX_ROLE_REFS_CACHE
    /\ roleRefsByTarget[1].key = KEY_H_A
    /\ roleRefsByTarget[1].refs = TABLE_AI

\* C3: restore leaves the table, the scope and the mode of every page that has a
\* live table as they were, whatever the cache holds.
C3_RestoreKeepsLiveTable ==
    [][last'.op = "restore"
       => \A p \in Pages :
              Session(pageStates, p).roleRefs # {} => pageStates'[p] = pageStates[p]]_vars

\* C3 witness: restore ran for a page whose live table is the empty table while
\* the cache holds another table under the restored key.
C3_Witness ==
    /\ last.op = "restore"
    /\ last.key = {KEY_H_A}
    /\ Session(pageStates, last.page).roleRefs = {TABLE_EMPTY}
    /\ \E e \in CacheGet(roleRefsByTarget, KEY_H_A) : e.refs = TABLE_DUP

\* C4: a disconnect removes every entry whose key has the dropped endpoint as
\* connection component and keeps every other entry, in order.
C4_PurgeByConnection ==
    [][last'.op = "disconnected"
       => roleRefsByTarget' =
              SelectSeq(roleRefsByTarget,
                        LAMBDA e : KeyConnection(e.key) # last'.endpoint)]_vars

\* C4 witness: the connection to "h" dropped and its entry was removed, while the
\* entry of "hx" (of which "h" is a prefix) is still cached.
C4_Witness ==
    /\ last.op = "disconnected"
    /\ last.endpoint = URL_H
    /\ last.purged = 1
    /\ KEY_HX_A \in KeySet(roleRefsByTarget)
    /\ KEY_H_A \notin KeySet(roleRefsByTarget)

\* C5 as claimed: in role mode every token that is, once normalized, not a key of
\* the page's table fails with the unknown-ref error.
C5_AnyTokenUnknownRef ==
    (/\ last.op = "resolve"
     /\ Session(pageStates, last.page).roleRefsMode = {"role"}
     /\ \A t \in Session(pageStates, last.page).roleRefs :
            NormalizeRef(last.ref) \notin DOMAIN t)
    => last.result.outcome = "UnknownRef"

\* C5 amended: in role mode every token whose normalized form is e<digits> and
\* is not a key of the page's table fails with the unknown-ref error, without a
\* locator being built and without a change to the sessions or the cache.
C5_ERefUnknownRef ==
    [][(/\ last'.op = "resolve"
        /\ Session(pageStates, last'.page).roleRefsMode = {"role"}
        /\ IsERef(NormalizeRef(last'.ref))
        /\ \A t \in Session(pageStates, last'.page).roleRefs :
               NormalizeRef(last'.ref) \notin DOMAIN t)
       => /\ last'.result = [outcome |-> "UnknownRef", locator |-> {}]
          /\ pageStates' = pageStates
          /\ roleRefsByTarget' = roleRefsByTarget]_vars

\* C5 witness: "@e7" was resolved on a page in role mode whose table has e1 and
\* e2, and failed with the unknown-ref error.
C5_Witness ==
    /\ last.op = "resolve"
    /\ last.ref = <<"@">> \o REF_E7
    /\ Session(pageStates, last.page).roleRefsMode = {"role"}
    /\ Session(pageStates, last.page).roleRefs = {TABLE_DUP}
    /\ last.result.outcome = "UnknownRef"

----------------------------------------------------------------------------
(* The snapshot builders (snapshot/aria-snapshot.ts, ref-map part)         *)

LowerLetters ==
    {"a", "b", "c", "d", "e", "f", "g", "h", "i", "j", "k", "l", "m",
     "n", "o", "p", "q", "r", "s", "t", "u", "v", "w", "x", "y", "z"}

UpperLetters ==
    {"A", "B", "C", "D", "E", "F", "G", "H", "I", "J", "K", "L", "M",
     "N", "O", "P", "Q", "R", "S", "T", "U", "V", "W", "X", "Y", "Z"}

\* \w of a regular expression
WordChars == LowerLetters \cup UpperLetters \cup Digits \cup {"_"}

UpperSeq == <<"A", "B", "C", "D", "E", "F", "G", "H", "I", "J", "K", "L", "M", "N", "O", "P", "Q", "R", "S", "T", "U", "V", "W", "X", "Y", "Z">>
LowerSeq == <<"a", "b", "c", "d", "e", "f", "g", "h", "i", "j", "k", "l", "m", "n", "o", "p", "q", "r", "s", "t", "u", "v", "w", "x", "y", "z">>

\* String.prototype.toLowerCase
ToLower(s) ==
    [i \in 1..Len(s) |->
        IF s[i] \in UpperLetters
        THEN LowerSeq[CHOOSE j \in 1..26 : UpperSeq[j] = s[i]]
        ELSE s[i]]

\* `const x = v` followed by F(x): v is computed once and F reads the value
With(v, F(_)) == CHOOSE r \in {F(x) : x \in {v}} : TRUE

\* String.prototype.split('\n'): always at least one line. SplitFrom gives the
\* lines of the text from position start on: the line that ends at the first
\* line feed at or after start, then the lines after that line feed.
RECURSIVE SplitFrom(_, _)
SplitFrom(text, start) ==
    LET feeds == {j \in start..Len(text) : text[j] = "\n"}
    IN IF feeds = {} THEN <<Slice(text, start, Len(text))>>
       ELSE With(CHOOSE j \in feeds : \A k \in feeds : j <= k,
                 LAMBDA j : <<Slice(text, start, j - 1)>> \o SplitFrom(text, j + 1))

Split(text) == SplitFrom(text, 1)

\* Array.prototype.join('\n')
RECURSIVE JoinFrom(_, _)
JoinFrom(lines, i) ==
    IF i > Len(lines) THEN <<>>
    ELSE IF i = Len(lines) THEN lines[i]
    ELSE lines[i] \o <<"\n">> \o JoinFrom(lines, i + 1)

Join(lines) == With(lines, LAMBDA ls : JoinFrom(ls, 1))

INTERACTIVE_ROLES ==
    { <<"b", "u", "t", "t", "o", "n">>, <<"l", "i", "n", "k">>, <<"t", "e", "x", "t", "b", "o", "x">>,
      <<"c", "h", "e", "c", "k", "b", "o", "x">>, <<"r", "a", "d", "i", "o">>, <<"c", "o", "m", "b", "o", "b", "o", "x">>,
      <<"l", "i", "s", "t", "b", "o", "x">>, <<"m", "e", "n", "u", "i", "t", "e", "m">>, <<"m", "e", "n", "u", "i", "t", "e", "m", "c", "h", "e", "c", "k", "b", "o", "x">>,
      <<"m", "e", "n", "u", "i", "t", "e", "m", "r", "a", "d", "i", "o">>, <<"o", "p", "t", "i", "o", "n">>, <<"s", "e", "a", "r", "c", "h", "b", "o", "x">>,
      <<"s", "l", "i", "d", "e", "r">>, <<"s", "p", "i", "n", "b", "u", "t", "t", "o", "n">>, <<"s", "w", "i", "t", "c", "h">>,
      <<"t", "a", "b">>, <<"t", "r", "e", "e", "i", "t", "e", "m">> }

CONTENT_ROLES ==
    { <<"h", "e", "a", "d", "i", "n", "g">>, <<"c", "e", "l", "l">>, <<"g", "r", "i", "d", "c", "e", "l", "l">>,
      <<"c", "o", "l", "u", "m", "n", "h", "e", "a", "d", "e", "r">>, <<"r", "o", "w", "h", "e", "a", "d", "e", "r">>, <<"l", "i", "s", "t", "i", "t", "e", "m">>,
      <<"a", "r", "t", "i", "c", "l", "e">>, <<"r", "e", "g", "i", "o", "n">>, <<"m", "a", "i", "n">>,
      <<"n", "a", "v", "i", "g", "a", "t", "i", "o", "n">> }

STRUCTURAL_ROLES ==
    { <<"g", "e", "n", "e", "r", "i", "c">>, <<"g", "r", "o", "u", "p">>, <<"l", "i", "s", "t">>,
      <<"t", "a", "b", "l", "e">>, <<"r", "o", "w">>, <<"r", "o", "w", "g", "r", "o", "u", "p">>,
      <<"g", "r", "i", "d">>, <<"t", "r", "e", "e", "g", "r", "i", "d">>, <<"m", "e", "n", "u">>,
      <<"m", "e", "n", "u", "b", "a", "r">>, <<"t", "o", "o", "l", "b", "a", "r">>, <<"t", "a", "b", "l", "i", "s", "t">>,
      <<"t", "r", "e", "e">>, <<"d", "i", "r", "e", "c", "t", "o", "r", "y">>, <<"d", "o", "c", "u", "m", "e", "n", "t">>,
      <<"a", "p", "p", "l", "i", "c", "a", "t", "i", "o", "n">>, <<"p", "r", "e", "s", "e", "n", "t", "a", "t", "i", "o", "n">>, <<"n", "o", "n", "e">> }

\* Math.floor(line.match(/^(\s*)/)[1].length / 2)
getIndentLevel(line) == LeadingWs(line) \div 2

\* the length of the longest run of characters of `chars` that starts at s[i]
RECURSIVE Run(_, _, _)
Run(s, i, chars) ==
    IF i <= Len(s) /\ s[i] \in chars THEN 1 + Run(s, i + 1, chars) ELSE 0

\* the length of the longest run of characters other than `c` that starts at s[i]
RECURSIVE RunNot(_, _, _)
RunNot(s, i, c) ==
    IF i <= Len(s) /\ s[i] # c THEN 1 + RunNot(s, i + 1, c) ELSE 0

\* line.match(/^(\s*-\s*)(\w+)(?:\s+"([^"]*)")?(.*)$/): the four groups, or no match.
\* Every quantifier is greedy and (.*) accepts any rest, so the first attempt of
\* each group is the one the match keeps.
MatchNode(line) ==
    LET ws1 == Run(line, 1, Whitespace)
        ws2 == Run(line, ws1 + 2, Whitespace)
        prefixLen == ws1 + 1 + ws2
        roleLen == Run(line, prefixLen + 1, WordChars)
        roleEnd == prefixLen + roleLen
        ws3 == Run(line, roleEnd + 1, Whitespace)
        quote == roleEnd + ws3 + 1
        nameLen == RunNot(line, quote + 1, "\"")
        hasName == /\ ws3 >= 1
                   /\ quote <= Len(line)
                   /\ line[quote] = "\""
                   /\ quote + nameLen + 1 <= Len(line)
    IN IF Len(line) > ws1 /\ line[ws1 + 1] = "-" /\ roleLen >= 1
       THEN [ok |-> TRUE,
             prefix |-> Slice(line, 1, prefixLen),
             roleRaw |-> Slice(line, prefixLen + 1, roleEnd),
             name |-> IF hasName THEN {Slice(line, quote + 1, quote + nameLen)} ELSE {},
             suffix |-> IF hasName THEN Slice(line, quote + nameLen + 2, Len(line))
                        ELSE Slice(line, roleEnd + 1, Len(line))]
       ELSE [ok |-> FALSE, prefix |-> <<>>, roleRaw |-> <<>>, name |-> {}, suffix |-> <<>>]

\* a key that ignores the name
getKey_RoleOnly(role, name) == role \o <<":">>

\* tracker.getKey: `${role}:${name ?? ''}`
getKey(role, name) ==
    role \o <<":">> \o (IF name = {} THEN <<>> ELSE CHOOSE n \in name : TRUE)

\* a Map read with `?? dflt`
GetOr(map, key, dflt) == IF key \in DOMAIN map THEN map[key] ELSE dflt

\* a Map or object write
Put(map, key, value) ==
    [k \in DOMAIN map \cup {key} |-> IF k = key THEN value ELSE map[k]]

\* the state of one builder run: the output lines, the ref table, the tracker's
\* two maps, the ref counter; lineOf remembers which input line received each
\* ref (bookkeeping of the model, used to state what a ref stands for)
NewBuild ==
    [result |-> <<>>, refs |-> <<>>, counts |-> <<>>, refsByKey |-> <<>>,
     counter |-> 0, lineOf |-> <<>>]

\* an assignment that names the ref after the number of the input line
AssignRef_LineNumber(st, role, name, index) ==
    LET ref == <<"e">> \o ToDecimal(index)
        key == getKey(role, name)
        nth == GetOr(st.counts, key, 0)
    IN [st EXCEPT !.counter = index,
                  !.counts = Put(st.counts, key, nth + 1),
                  !.refsByKey = Put(st.refsByKey, key, Append(GetOr(st.refsByKey, key, <<>>), ref)),
                  !.refs = Put(st.refs, ref, RefInfo(role, name, {nth})),
                  !.lineOf = Put(st.lineOf, ref, index)]

\* nextRef, tracker.getNextIndex, tracker.trackRef and refs[ref] = { role, name, nth }
AssignRef(st, role, name, index) ==
    LET ref == <<"e">> \o ToDecimal(st.counter + 1)
        key == getKey(role, name)
        nth == GetOr(st.counts, key, 0)
    IN [st EXCEPT !.counter = st.counter + 1,
                  !.counts = Put(st.counts, key, nth + 1),
                  !.refsByKey = Put(st.refsByKey, key, Append(GetOr(st.refsByKey, key, <<>>), ref)),
                  !.refs = Put(st.refs, ref, RefInfo(role, name, {nth})),
                  !.lineOf = Put(st.lineOf, ref, index)]

\* the annotated line: prefix, role, name, [ref=..], [nth=..] and the suffix
\* when keepSuffix holds
Enhanced(m, ref, nth, keepSuffix) ==
    m.prefix \o m.roleRaw
    \o (IF Truthy(m.name) THEN <<" ", "\"">> \o (CHOOSE n \in m.name : TRUE) \o <<"\"">> ELSE <<>>)
    \o <<" ", "[", "r", "e", "f", "=">> \o ref \o <<"]">>
    \o (IF nth > 0 THEN <<" ", "[", "n", "t", "h", "=">> \o ToDecimal(nth) \o <<"]">> ELSE <<>>)
    \o (IF keepSuffix THEN m.suffix ELSE <<>>)

\* a limit that also cuts the lines at maxDepth
TooDeep_Inclusive(line, opts) ==
    opts.maxDepth # {} /\ getIndentLevel(line) >= (CHOOSE d \in opts.maxDepth : TRUE)

\* options.maxDepth !== undefined && depth > options.maxDepth
TooDeep(line, opts) ==
    opts.maxDepth # {} /\ getIndentLevel(line) > (CHOOSE d \in opts.maxDepth : TRUE)

\* one iteration of the loop of the interactive branch (role refs)
RoleInteractiveLine(st, line, index, opts) ==
    With(MatchNode(line), LAMBDA m :
    LET role == ToLower(m.roleRaw)
        ref == <<"e">> \o ToDecimal(st.counter + 1)
        nth == GetOr(st.counts, getKey(role, m.name), 0)
        next == AssignRef(st, role, m.name, index)
    IN IF TooDeep(line, opts) THEN st
       ELSE IF ~m.ok THEN st
       ELSE IF StartsWith(m.roleRaw, <<"/">>) THEN st
       ELSE IF role \notin INTERACTIVE_ROLES THEN st
       ELSE [next EXCEPT !.result =
                Append(st.result, Enhanced(m, ref, nth, Includes(m.suffix, <<"[">>)))])

\* a full-tree branch in which a line that does not match uses up a ref number
RoleFullLine_CountsUnmatched(st, line, index, opts) ==
    With(MatchNode(line), LAMBDA m :
    LET role == ToLower(m.roleRaw)
        ref == <<"e">> \o ToDecimal(st.counter + 1)
        nth == GetOr(st.counts, getKey(role, m.name), 0)
        next == AssignRef(st, role, m.name, index)
        pushed == [st EXCEPT !.result = Append(st.result, line)]
    IN IF TooDeep(line, opts) THEN st
       ELSE IF ~m.ok THEN [pushed EXCEPT !.counter = st.counter + 1]
       ELSE IF opts.compact /\ role \in STRUCTURAL_ROLES /\ ~Truthy(m.name) THEN st
       ELSE IF ~(role \in INTERACTIVE_ROLES \/ (role \in CONTENT_ROLES /\ Truthy(m.name)))
            THEN pushed
       ELSE [next EXCEPT !.result =
                Append(st.result, Enhanced(m, ref, nth, m.suffix # <<>>))])

\* a full-tree branch that gives a ref to every line of a content role, named or not
RoleFullLine_AnyContent(st, line, index, opts) ==
    With(MatchNode(line), LAMBDA m :
    LET role == ToLower(m.roleRaw)
        ref == <<"e">> \o ToDecimal(st.counter + 1)
        nth == GetOr(st.counts, getKey(role, m.name), 0)
        next == AssignRef(st, role, m.name, index)
        pushed == [st EXCEPT !.result = Append(st.result, line)]
    IN IF TooDeep(line, opts) THEN st
       ELSE IF ~m.ok THEN pushed
       ELSE IF opts.compact /\ role \in STRUCTURAL_ROLES /\ ~Truthy(m.name) THEN st
       ELSE IF role \notin INTERACTIVE_ROLES \cup CONTENT_ROLES THEN pushed
       ELSE [next EXCEPT !.result =
                Append(st.result, Enhanced(m, ref, nth, m.suffix # <<>>))])

\* one iteration of the loop of the full-tree branch (role refs)
RoleFullLine(st, line, index, opts) ==
    With(MatchNode(line), LAMBDA m :
    LET role == ToLower(m.roleRaw)
        ref == <<"e">> \o ToDecimal(st.counter + 1)
        nth == GetOr(st.counts, getKey(role, m.name), 0)
        next == AssignRef(st, role, m.name, index)
        pushed == [st EXCEPT !.result = Append(st.result, line)]
    IN IF TooDeep(line, opts) THEN st
       ELSE IF ~m.ok THEN pushed
       ELSE IF StartsWith(m.roleRaw, <<"/">>) THEN pushed
       ELSE IF opts.compact /\ role \in STRUCTURAL_ROLES /\ ~Truthy(m.name) THEN st
       ELSE IF ~(role \in INTERACTIVE_ROLES \/ (role \in CONTENT_ROLES /\ Truthy(m.name)))
            THEN pushed
       ELSE [next EXCEPT !.result =
                Append(st.result, Enhanced(m, ref, nth, m.suffix # <<>>))])

\* the loop over the lines, Line being the body of one of the branches
RECURSIVE Loop(_, _, _, _, _)
Loop(Line(_, _, _, _), st, lines, index, opts) ==
    IF index > Len(lines) THEN st
    ELSE With(Line(st, lines[index], index, opts),
              LAMBDA next : Loop(Line, next, lines, index + 1, opts))

\* a cleanup that strips nth from every entry
removeNthFromNonDuplicates_StripAll(refs, refsByKey) ==
    [r \in DOMAIN refs |-> [refs[r] EXCEPT !.nth = {}]]

\* removeNthFromNonDuplicates: delete nth of every entry whose key has one ref
removeNthFromNonDuplicates(refs, refsByKey) ==
    LET duplicates == {key \in DOMAIN refsByKey : Len(refsByKey[key]) > 1}
    IN [r \in DOMAIN refs |->
           IF getKey(refs[r].role, refs[r].name) \notin duplicates
           THEN [refs[r] EXCEPT !.nth = {}]
           ELSE refs[r]]

\* a scan that takes any deeper following line for a relevant child
hasRelevantChildren_AnyChild(lines, i) ==
    /\ i < Len(lines)
    /\ getIndentLevel(lines[i + 1]) > getIndentLevel(lines[i])

\* the inner loop of compactTree: some line after i, before the first line that
\* is not deeper than line i, carries a ref
hasRelevantChildren(lines, i) ==
    \E j \in (i + 1)..Len(lines) :
        /\ Includes(lines[j], <<"[", "r", "e", "f", "=">>)
        /\ \A k \in (i + 1)..j : getIndentLevel(lines[k]) > getIndentLevel(lines[i])

\* the lines compactTree keeps
CompactKeeps(lines, i) ==
    \/ Includes(lines[i], <<"[", "r", "e", "f", "=">>)
    \/ (Includes(lines[i], <<":">>) /\ ~EndsWith(TrimEnd(lines[i]), <<":">>))
    \/ hasRelevantChildren(lines, i)

compactTree(text) ==
    With(Split(text), LAMBDA lines :
    With({i \in 1..Len(lines) : CompactKeeps(lines, i)}, LAMBDA kept :
    LET RECURSIVE Collect(_)
        Collect(i) ==
            IF i > Len(lines) THEN <<>>
            ELSE (IF i \in kept THEN <<lines[i]>> ELSE <<>>) \o Collect(i + 1)
    IN Join(Collect(1))))

\* text || fallback
OrElse(text, fallback) == IF text = <<>> THEN fallback ELSE text

\* buildRoleSnapshotFromAriaSnapshot: the returned snapshot and refs, and the
\* bookkeeping of the run
buildRoleSnapshotFromAriaSnapshot(ariaSnapshot, opts) ==
    With(Split(ariaSnapshot), LAMBDA lines :
    With(IF opts.interactive
         THEN Loop(RoleInteractiveLine, NewBuild, lines, 1, opts)
         ELSE Loop(RoleFullLine, NewBuild, lines, 1, opts), LAMBDA st :
    LET refs == removeNthFromNonDuplicates(st.refs, st.refsByKey)
        joined == OrElse(Join(st.result), <<"(", "e", "m", "p", "t", "y", ")">>)
    IN [snapshot |-> IF opts.interactive
                     THEN OrElse(Join(st.result), <<"(", "n", "o", " ", "i", "n", "t", "e", "r", "a", "c", "t", "i", "v", "e", " ", "e", "l", "e", "m", "e", "n", "t", "s", ")">>)
                     ELSE IF opts.compact THEN compactTree(joined) ELSE joined,
        refs |-> refs,
        lineOf |-> st.lineOf]))

\* suffix.match(/\[ref=(e\d+)\]/i): the first match's group, {} without a match
parseAiSnapshotRef(suffix) ==
    LET low == ToLower(suffix)
        MatchAt(i) ==
            /\ Slice(low, i, i + 5) = <<"[", "r", "e", "f", "=", "e">>
            /\ Run(suffix, i + 6, Digits) >= 1
            /\ i + 6 + Run(suffix, i + 6, Digits) <= Len(suffix)
            /\ suffix[i + 6 + Run(suffix, i + 6, Digits)] = "]"
        starts == {i \in 1..Len(suffix) : MatchAt(i)}
        first == CHOOSE i \in starts : \A j \in starts : i <= j
    IN IF starts = {} THEN {}
       ELSE {Slice(suffix, first + 5, first + 5 + Run(suffix, first + 6, Digits))}

\* refs[ref] = { role, ...(name ? { name } : {}) }
AiAssign(st, ref, role, name, index) ==
    [st EXCEPT !.refs = Put(st.refs, ref, RefInfo(role, IF Truthy(name) THEN name ELSE {}, {})),
               !.lineOf = Put(st.lineOf, ref, index)]

\* an interactive branch that emits the line without its suffix
AiInteractiveLine_NoSuffix(st, line, index, opts) ==
    With(MatchNode(line), LAMBDA m :
    LET role == ToLower(m.roleRaw)
        refOpt == parseAiSnapshotRef(m.suffix)
        ref == CHOOSE r \in refOpt : TRUE
    IN IF TooDeep(line, opts) \/ ~m.ok THEN st
       ELSE IF role \notin INTERACTIVE_ROLES \/ refOpt = {} THEN st
       ELSE [AiAssign(st, ref, role, m.name, index) EXCEPT
                !.result = Append(st.result, m.prefix \o m.roleRaw)])

\* one iteration of the loop of the interactive branch (engine refs)
AiInteractiveLine(st, line, index, opts) ==
    With(MatchNode(line), LAMBDA m :
    LET role == ToLower(m.roleRaw)
        refOpt == parseAiSnapshotRef(m.suffix)
        ref == CHOOSE r \in refOpt : TRUE
        out == m.prefix \o m.roleRaw
               \o (IF Truthy(m.name) THEN <<" ", "\"">> \o (CHOOSE n \in m.name : TRUE) \o <<"\"">>
                   ELSE <<>>)
               \o m.suffix
    IN IF TooDeep(line, opts) THEN st
       ELSE IF ~m.ok THEN st
       ELSE IF StartsWith(m.roleRaw, <<"/">>) THEN st
       ELSE IF role \notin INTERACTIVE_ROLES THEN st
       ELSE IF refOpt = {} THEN st
       ELSE [AiAssign(st, ref, role, m.name, index) EXCEPT !.result = Append(st.result, out)])

\* one iteration of the loop of the full-tree branch (engine refs)
AiFullLine(st, line, index, opts) ==
    With(MatchNode(line), LAMBDA m :
    LET role == ToLower(m.roleRaw)
        refOpt == parseAiSnapshotRef(m.suffix)
        ref == CHOOSE r \in refOpt : TRUE
        pushed == [st EXCEPT !.result = Append(st.result, line)]
    IN IF TooDeep(line, opts) THEN st
       ELSE IF ~m.ok THEN pushed
       ELSE IF StartsWith(m.roleRaw, <<"/">>) THEN pushed
       ELSE IF opts.compact /\ role \in STRUCTURAL_ROLES /\ ~Truthy(m.name) THEN st
       ELSE IF refOpt = {} THEN pushed
       ELSE [AiAssign(st, ref, role, m.name, index) EXCEPT !.result = Append(st.result, line)])

\* buildRoleSnapshotFromAiSnapshot: the returned snapshot and refs, and the
\* bookkeeping of the run
buildRoleSnapshotFromAiSnapshot(aiSnapshot, opts) ==
    With(Split(aiSnapshot), LAMBDA lines :
    With(IF opts.interactive
         THEN Loop(AiInteractiveLine, NewBuild, lines, 1, opts)
         ELSE Loop(AiFullLine, NewBuild, lines, 1, opts), LAMBDA st :
    LET joined == OrElse(Join(st.result), <<"(", "e", "m", "p", "t", "y", ")">>)
    IN [snapshot |-> IF opts.interactive
                     THEN OrElse(Join(st.result), <<"(", "n", "o", " ", "i", "n", "t", "e", "r", "a", "c", "t", "i", "v", "e", " ", "e", "l", "e", "m", "e", "n", "t", "s", ")">>)
                     ELSE IF opts.compact THEN compactTree(joined) ELSE joined,
        refs |-> st.refs,
        lineOf |-> st.lineOf]))


----------------------------------------------------------------------------
(* The page as the engine sees it, and the engine's renderings and queries *)

\* bound: the number of nodes of a page
MaxNodes == 3

\* bound: the deepest nesting level of a node
MaxNodeDepth == 2

\* the kinds of node a page is made of: the element the engine's role query sees
\* ({} for a node that is no element of the page's own document), what
\* locator.ariaSnapshot() prints for it and what _snapshotForAI prints for it
\* (`#` stands for the number the engine gives the node)
NodeKinds ==
    { [elem |-> {[role |-> ROLE_BUTTON, name |-> {<<"S">>}]},
       aria |-> <<"-", " ", "b", "u", "t", "t", "o", "n", " ", "\"", "S", "\"">>, ai |-> <<"-", " ", "b", "u", "t", "t", "o", "n", " ", "\"", "S", "\"", " ", "[", "r", "e", "f", "=", "e", "#", "]">>],
      [elem |-> {[role |-> ROLE_BUTTON, name |-> {}]},
       aria |-> <<"-", " ", "b", "u", "t", "t", "o", "n">>, ai |-> <<"-", " ", "b", "u", "t", "t", "o", "n", " ", "[", "r", "e", "f", "=", "e", "#", "]">>],
      [elem |-> {[role |-> ROLE_LINK, name |-> {<<"M">>}]},
       aria |-> <<"-", " ", "l", "i", "n", "k", " ", "\"", "M", "\"">>, ai |-> <<"-", " ", "l", "i", "n", "k", " ", "\"", "M", "\"", " ", "[", "r", "e", "f", "=", "e", "#", "]">>],
      [elem |-> {[role |-> <<"l", "i", "s", "t">>, name |-> {}]},
       aria |-> <<"-", " ", "l", "i", "s", "t", ":">>, ai |-> <<"-", " ", "l", "i", "s", "t", ":">>],
      [elem |-> {[role |-> <<"h", "e", "a", "d", "i", "n", "g">>, name |-> {<<"T">>}]},
       aria |-> <<"-", " ", "h", "e", "a", "d", "i", "n", "g", " ", "\"", "T", "\"", " ", "[", "l", "e", "v", "e", "l", "=", "1", "]">>, ai |-> <<"-", " ", "h", "e", "a", "d", "i", "n", "g", " ", "\"", "T", "\"", " ", "[", "l", "e", "v", "e", "l", "=", "1", "]", " ", "[", "r", "e", "f", "=", "e", "#", "]">>],
      [elem |-> {[role |-> ROLE_LINK, name |-> {<<"a", ":", " ", "b">>}]},
       aria |-> <<"-", " ", "'", "l", "i", "n", "k", " ", "\"", "a", ":", " ", "b", "\"", "'", ":">>, ai |-> <<"-", " ", "'", "l", "i", "n", "k", " ", "\"", "a", ":", " ", "b", "\"", " ", "[", "r", "e", "f", "=", "e", "#", "]", "'", ":">>] }

\* the nesting levels of the nodes of a page, in document order: the first node
\* is at level 0 and a node is at most one level deeper than the node before it
DepthShapes ==
    {d \in UNION {[1..n -> 0..MaxNodeDepth] : n \in 1..MaxNodes} :
        /\ d[1] = 0
        /\ \A i \in 2..Len(d) : d[i] <= d[i - 1] + 1}

\* a page: the kinds k of its nodes at the nesting levels d
Dom(d, k) == [i \in 1..Len(d) |-> [kind |-> k[i], depth |-> d[i]]]

\* the pages: up to MaxNodes nodes, each a kind at a nesting level
IsDom(x) == \E d \in DepthShapes : \E k \in [1..Len(d) -> NodeKinds] : x = Dom(d, k)

\* two spaces of indentation per level
RECURSIVE Indent(_)
Indent(depth) == IF depth = 0 THEN <<>> ELSE <<" ", " ">> \o Indent(depth - 1)

\* a rendering with `#` replaced by the node's number
RECURSIVE Numbered(_, _)
Numbered(text, n) ==
    IF text = <<>> THEN <<>>
    ELSE (IF Head(text) = "#" THEN ToDecimal(n) ELSE <<Head(text)>>) \o Numbered(Tail(text), n)

\* what locator.ariaSnapshot() returns for the page
AriaSnapshotText(d) ==
    Join([i \in 1..Len(d) |-> Indent(d[i].depth) \o d[i].kind.aria])

\* what page._snapshotForAI() returns in `full` for the page
AiSnapshotText(d) ==
    Join([i \in 1..Len(d) |-> Indent(d[i].depth) \o Numbered(d[i].kind.ai, i)])

\* the indices, in document order, of the elements locAny.getByRole(role) or
\* locAny.getByRole(role, { name, exact: true }) matches
GetByRole(d, role, name) ==
    LET Matches(i) ==
            \E e \in d[i].kind.elem :
                /\ e.role = role
                /\ name = {} \/ e.name = name
        RECURSIVE From(_)
        From(i) ==
            IF i > Len(d) THEN <<>>
            ELSE (IF Matches(i) THEN <<i>> ELSE <<>>) \o From(i + 1)
    IN From(1)

\* the elements a role locator selects: all matches, or the nth of them
LocatorElements(d, locator) ==
    LET all == GetByRole(d, locator.role, locator.name)
        n == CHOOSE n \in locator.nth : TRUE
    IN IF locator.nth = {} THEN all
       ELSE IF n < Len(all) THEN <<all[n + 1]>> ELSE <<>>

----------------------------------------------------------------------------
(* snapshotRole, snapshotAi and compactTree on the pages                   *)

\* SnapshotBuildOptions: maxDepth undefined, or 0 (only the top-level nodes);
\* the interactive branch returns before options.compact is read, so compact
\* is drawn for the full tree only
BuildOptions ==
    {o \in [interactive : BOOLEAN, compact : BOOLEAN, maxDepth : {{}, {0}}] :
        o.interactive => ~o.compact}

SNAP_PAGE == "p1"

\* the cache and the sessions while the snapshots are exercised
CacheIdle ==
    /\ roleRefsByTarget = <<>>
    /\ pageStates = [p \in Pages |-> {}]

InitBuild ==
    /\ CacheIdle
    /\ ConnIdle
    /\ last = [op |-> "init"]
    /\ IsDom(dom)
    /\ input = <<>>
    /\ options = [interactive |-> FALSE, compact |-> FALSE, maxDepth |-> {}]
    /\ built = {}
    /\ lineOf = <<>>
    /\ tree = <<>>

\* snapshotRole in role mode: ariaSnapshot(), the builder, the store
snapshotRole(opts) ==
    /\ built = {}
    /\ \E text \in {AriaSnapshotText(dom)} :
       \E b \in {buildRoleSnapshotFromAriaSnapshot(text, opts)} :
       /\ input' = text
       /\ options' = opts
       /\ built' = {[snapshot |-> b.snapshot, refs |-> b.refs]}
       /\ lineOf' = b.lineOf
       /\ pageStates' = StoreSession(pageStates, SNAP_PAGE, b.refs, {}, {"role"})
       /\ roleRefsByTarget' =
              StoreCache(roleRefsByTarget, URL_H, {TARGET_A}, b.refs, {}, {"role"})
       /\ last' = [op |-> "snapshot", mode |-> "role"]
       /\ UNCHANGED <<dom, tree, connVars, tasks>>

\* snapshotAi (and snapshotRole with refsMode 'aria'): _snapshotForAI, the
\* builder, the store
snapshotAi(opts) ==
    /\ built = {}
    /\ \E text \in {AiSnapshotText(dom)} :
       \E b \in {buildRoleSnapshotFromAiSnapshot(text, opts)} :
       /\ input' = text
       /\ options' = opts
       /\ built' = {[snapshot |-> b.snapshot, refs |-> b.refs]}
       /\ lineOf' = b.lineOf
       /\ pageStates' = StoreSession(pageStates, SNAP_PAGE, b.refs, {}, {"aria"})
       /\ roleRefsByTarget' =
              StoreCache(roleRefsByTarget, URL_H, {TARGET_A}, b.refs, {}, {"aria"})
       /\ last' = [op |-> "snapshot", mode |-> "aria"]
       /\ UNCHANGED <<dom, tree, connVars, tasks>>

\* an action resolves a ref of the last role-mode snapshot and the engine
\* evaluates the locator on the unchanged page
ResolveOnPage(ref) ==
    LET result == refLocator(pageStates, SNAP_PAGE, ref)
    IN /\ last.op = "snapshot"
       /\ last.mode = "role"
       /\ ref \in DOMAIN lineOf
       /\ last' = [op |-> "resolveOnPage", ref |-> ref, result |-> result,
                   elements |-> IF result.outcome = "locator"
                                THEN LocatorElements(dom, CHOOSE l \in result.locator : TRUE)
                                ELSE <<>>]
       /\ UNCHANGED <<cacheVars, buildVars, connVars, tasks>>

\* compactTree applied to the text at hand
Compact ==
    /\ last' = [op |-> "compact", arg |-> tree]
    /\ tree' = compactTree(tree)
    /\ UNCHANGED <<cacheVars, dom, input, options, built, lineOf, connVars, tasks>>

SnapshotRole == \E opts \in BuildOptions : snapshotRole(opts)

SnapshotAi == \E opts \in BuildOptions : snapshotAi(opts)

ResolveBuilt == \E ref \in DOMAIN lineOf : ResolveOnPage(ref)

NextBuild == SnapshotRole \/ SnapshotAi \/ ResolveBuilt

\* one snapshot of a page, then the resolution of its refs on that page
SpecBuild == InitBuild /\ [][NextBuild]_vars

\* the options of an interactive-only snapshot
InteractiveOptions == {o \in BuildOptions : o.interactive}

SnapshotRoleInteractive == \E opts \in InteractiveOptions : snapshotRole(opts)

SnapshotAiInteractive == \E opts \in InteractiveOptions : snapshotAi(opts)

NextInteractive == SnapshotRoleInteractive \/ SnapshotAiInteractive

\* one interactive-only snapshot of a page
SpecInteractive == InitBuild /\ [][NextInteractive]_vars

\* the kinds of node of the pages whose trees are compacted: NodeKinds, a text
\* node (no element of the page) and a named node of a role that receives no ref
CompactKinds ==
    NodeKinds \cup
    { [elem |-> {}, aria |-> <<"-", " ", "t", "e", "x", "t", ":", " ", "h", "i">>, ai |-> <<"-", " ", "t", "e", "x", "t", ":", " ", "h", "i">>],
      [elem |-> {[role |-> <<"i", "m", "g">>, name |-> {<<"L", "o", "g", "o">>}]},
       aria |-> <<"-", " ", "i", "m", "g", " ", "\"", "L", "o", "g", "o", "\"">>, ai |-> <<"-", " ", "i", "m", "g", " ", "\"", "L", "o", "g", "o", "\"">>] }

\* the trees compactTree is applied to: the engine's renderings of a page and
\* the full tree the role builder makes of it
InitCompact ==
    /\ CacheIdle
    /\ ConnIdle
    /\ last = [op |-> "init"]
    /\ dom = <<>>
    /\ input = <<>>
    /\ options = [interactive |-> FALSE, compact |-> FALSE, maxDepth |-> {}]
    /\ built = {}
    /\ lineOf = <<>>
    /\ \E d \in DepthShapes : \E k \in [1..Len(d) -> CompactKinds] :
       \E page \in {Dom(d, k)} :
          tree \in {AriaSnapshotText(page), AiSnapshotText(page),
                    buildRoleSnapshotFromAriaSnapshot(
                        AriaSnapshotText(page),
                        [interactive |-> FALSE, compact |-> FALSE,
                         maxDepth |-> {}]).snapshot}

NextCompact == Compact

\* compactTree applied, and applied again, to a tree
SpecCompact == InitCompact /\ [][NextCompact]_vars

----------------------------------------------------------------------------
(* Claims about the snapshots                                              *)

\* the snapshot returned by the last build
Built == CHOOSE b \in built : TRUE

\* the mode the last snapshot was stored with
BuiltMode == Session(pageStates, SNAP_PAGE).roleRefsMode

\* the name of an entry as the tracker reads it: name ?? ''
NameOrEmpty(info) == IF info.name = {} THEN <<>> ELSE CHOOSE n \in info.name : TRUE

\* the refs of a table that share the (role, name) key of ref r
SameKey(refs, r) ==
    {q \in DOMAIN refs :
        refs[q].role = refs[r].role /\ NameOrEmpty(refs[q]) = NameOrEmpty(refs[r])}

\* the identifiers X of the markers [ref=X] of a text
TextRefs(text) ==
    {Slice(text, i + 5, i + 4 + RunNot(text, i + 5, "]")) :
        i \in {j \in 1..Len(text) :
                  /\ Slice(text, j, j + 4) = <<"[", "r", "e", "f", "=">>
                  /\ j + 5 + RunNot(text, j + 5, "]") <= Len(text)}}

\* C6 as claimed: on the unchanged page, a ref of a role-mode snapshot selects
\* exactly the one element whose line carried that ref.
C6_RefSelectsItsElement ==
    last.op = "resolveOnPage" => last.elements = <<lineOf[last.ref]>>

\* C7: after a role-mode build, the k entries of one (role, name) key have
\* nth 0..k-1 in document order when k >= 2, and the single entry of a key has
\* no nth when k = 1.
C7_NthInDocumentOrder ==
    (built # {} /\ BuiltMode = {"role"})
    => \A r \in DOMAIN Built.refs :
           LET same == SameKey(Built.refs, r)
               rank == Cardinality({q \in same : lineOf[q] < lineOf[r]})
           IN IF Cardinality(same) >= 2
              THEN Built.refs[r].nth = {rank}
              ELSE Built.refs[r].nth = {}

\* C7 witness: the role-mode table of two button "S" and one link "M":
\* e1 nth 0, e2 nth 1, e3 without nth.
C7_Witness ==
    /\ built # {}
    /\ BuiltMode = {"role"}
    /\ Built.refs =
           (REF_E1 :> RefInfo(ROLE_BUTTON, {<<"S">>}, {0})) @@
           (REF_E2 :> RefInfo(ROLE_BUTTON, {<<"S">>}, {1})) @@
           (<<"e", "3">> :> RefInfo(ROLE_LINK, {<<"M">>}, {}))

\* no two refs of the table have an equal (role, name) pair and an equal or
\* absent nth
DistinctEntries(refs) ==
    \A r, q \in DOMAIN refs :
        (r # q /\ refs[r].role = refs[q].role /\ refs[r].name = refs[q].name)
        => refs[r].nth # refs[q].nth

\* C8 as claimed: the table of every snapshot, in role mode and in aria mode,
\* has distinct entries.
C8_DistinctEntriesAnyMode ==
    built # {} => DistinctEntries(Built.refs)

\* C8 amended: the table of every role-mode snapshot has distinct entries.
C8_DistinctEntriesRoleMode ==
    (built # {} /\ BuiltMode = {"role"}) => DistinctEntries(Built.refs)

\* C8 witness: a role-mode snapshot in interactive mode gave refs to two
\* elements of one role and name.
C8_Witness ==
    /\ built # {}
    /\ BuiltMode = {"role"}
    /\ options.interactive
    /\ \E r, q \in DOMAIN Built.refs :
           /\ r # q
           /\ Built.refs[r].role = Built.refs[q].role
           /\ Built.refs[r].name = Built.refs[q].name

\* C9 as claimed: the refs marked in the snapshot text are the keys of the
\* table.
C9_TextRefsAreTableKeys ==
    built # {} => TextRefs(Built.snapshot) = DOMAIN Built.refs

\* C10: the result of compactTree is a fixed point of compactTree.
C10_CompactIdempotent ==
    last.op = "compact" => compactTree(tree) = tree

\* C10 witness: a compaction dropped a line and kept a line without a ref above
\* the line that carries one.
C10_Witness ==
    /\ last.op = "compact"
    /\ tree # last.arg
    /\ Len(Split(tree)) >= 2
    /\ ~Includes(Split(tree)[1], <<"[", "r", "e", "f", "=">>)
    /\ Includes(Split(tree)[2], <<"[", "r", "e", "f", "=">>)

----------------------------------------------------------------------------
(* Claims about compaction and the two output modes                        *)

\* the line carries a ref marker
HasRef(line) == Includes(line, <<"[", "r", "e", "f", "=">>)

\* the line carries a quoted accessible name
HasQuotedName(line) == Includes(line, <<"\"">>)

\* the lines of a text that carry a ref or a quoted name, in order
RefOrNamedLines(text) ==
    SelectSeq(Split(text), LAMBDA line : HasRef(line) \/ HasQuotedName(line))

\* C11 as claimed: compaction keeps every line that carries a ref or a quoted
\* accessible name.
C11_KeepsRefAndNamedLines ==
    last.op = "compact" => RefOrNamedLines(tree) = RefOrNamedLines(last.arg)

\* result.join('\n') || '(no interactive elements)'
NO_INTERACTIVE == <<"(", "n", "o", " ", "i", "n", "t", "e", "r", "a", "c", "t", "i", "v", "e", " ", "e", "l", "e", "m", "e", "n", "t", "s", ")">>

\* the lines a snapshot emitted; the placeholder of an empty result is no line
EmittedLines(snapshot) ==
    IF snapshot = NO_INTERACTIVE THEN {}
    ELSE With(Split(snapshot), LAMBDA lines : {lines[i] : i \in 1..Len(lines)})

\* the full-tree build of the input of the last snapshot, with the same
\* maxDepth and the same builder
FullBuild(compact) ==
    IF BuiltMode = {"role"}
    THEN buildRoleSnapshotFromAriaSnapshot(
             input, [options EXCEPT !.interactive = FALSE, !.compact = compact])
    ELSE buildRoleSnapshotFromAiSnapshot(
             input, [options EXCEPT !.interactive = FALSE, !.compact = compact])

\* every line of the interactive-only snapshot is a ref-carrying line of the
\* full-tree snapshot
LinesIn(full) ==
    EmittedLines(Built.snapshot) \subseteq {l \in EmittedLines(full.snapshot) : HasRef(l)}

\* every entry of the interactive-only table is the entry of the same line in
\* the full-tree table, under some ref
EntriesIn(full) ==
    \A r \in DOMAIN Built.refs :
        \E q \in DOMAIN full.refs :
            /\ full.lineOf[q] = lineOf[r]
            /\ full.refs[q] = Built.refs[r]

\* C12 as claimed: with either builder, every line of the interactive-only
\* output, with its ref, is a ref-carrying line of the full-tree output for the
\* same input and maxDepth.
C12_InteractiveLinesInFullTree ==
    (last.op = "snapshot" /\ options.interactive)
    => \A compact \in BOOLEAN : \E full \in {FullBuild(compact)} : LinesIn(full)

\* C12 amended: with engine refs the interactive-only lines are ref-carrying
\* lines of the full-tree output; with computed refs every interactive-only
\* entry is the full-tree entry of the same line (same role, name and nth),
\* possibly under another ref.
C12_InteractiveSubsetOfFull ==
    (last.op = "snapshot" /\ options.interactive)
    => \A compact \in BOOLEAN :
           \E full \in {FullBuild(compact)} :
               /\ EntriesIn(full)
               /\ BuiltMode = {"aria"} => LinesIn(full)

\* C12 witness: an interactive-only role snapshot of a heading followed by a
\* button; the button is e1 here and e2 in the full tree.
C12_Witness ==
    /\ last.op = "snapshot"
    /\ options.interactive
    /\ BuiltMode = {"role"}
    /\ input = <<"-", " ", "h", "e", "a", "d", "i", "n", "g", " ", "\"", "T", "\"", " ", "[", "l", "e", "v", "e", "l", "=", "1", "]">> \o <<"\n">> \o <<"-", " ", "b", "u", "t", "t", "o", "n", " ", "\"", "S", "\"">>
    /\ Built.snapshot = <<"-", " ", "b", "u", "t", "t", "o", "n", " ", "\"", "S", "\"", " ", "[", "r", "e", "f", "=", "e", "1", "]">>
    /\ FullBuild(FALSE).snapshot =
           <<"-", " ", "h", "e", "a", "d", "i", "n", "g", " ", "\"", "T", "\"", " ", "[", "r", "e", "f", "=", "e", "1", "]", " ", "[", "l", "e", "v", "e", "l", "=", "1", "]">> \o <<"\n">> \o <<"-", " ", "b", "u", "t", "t", "o", "n", " ", "\"", "S", "\"", " ", "[", "r", "e", "f", "=", "e", "2", "]">>

----------------------------------------------------------------------------
(* connectBrowser: one shared connectWithRetry run per endpoint            *)

\* const timeout = 5000 + attempt * 2000
AttemptTimeout_Flat(attempt) == 5000

AttemptTimeout(attempt) == 5000 + attempt * 2000

\* for (let attempt = 0; attempt < 3; attempt++)
MAX_ATTEMPTS == 3

\* the endpoints callers ask for; URL_H and URL_H_SLASH normalize to one endpoint
ConnectUrls == {URL_H, URL_H_SLASH, URL_F}

\* the errors chromium.connectOverCDP rejects with (Error instances)
ConnectErrors == {"ECONNREFUSED", "Timeout"}

\* a run is in flight until its promise settles
InFlight(run) == run.phase \in {"ws", "cdp", "backoff"}

\* a new connectWithRetry run up to its first await: attempt 0 has computed its
\* timeout and called getChromeWebSocketUrl(normalized, timeout). wsTimeouts and
\* timeouts are the timeouts handed to getChromeWebSocketUrl and to
\* connectOverCDP so far, failed counts the attempts that threw, thrown is what
\* the latest of them threw and lastErr is the variable of that name
NewRun(normalized) ==
    [cdpUrl |-> normalized, attempt |-> 0, phase |-> "ws",
     wsTimeouts |-> <<AttemptTimeout(0)>>, timeouts |-> <<>>, failed |-> 0,
     thrown |-> {}, lastErr |-> {}, result |-> {}, open |-> FALSE]

\* Map.delete
MapDelete(map, key) == [k \in DOMAIN map \ {key} |-> map[k]]

\* a connectBrowser that starts a run of its own although one is in flight
connectBrowser_NoDedup(c, cdpUrl) ==
    LET normalized == normalizeCdpUrl(cdpUrl)
        inFlight == {r \in 1..Len(runs) : runs[r].cdpUrl = normalized /\ InFlight(runs[r])}
    IN /\ callers[c].pc = "idle"
       /\ runs' = Append(runs, NewRun(normalized))
       /\ connectingByUrl' = Put(connectingByUrl, normalized, Len(runs) + 1)
       /\ callers' = [callers EXCEPT ![c] =
              [pc |-> "awaiting", cdpUrl |-> normalized, run |-> Len(runs) + 1,
               joined |-> FALSE]]
       /\ last' = [op |-> "connectBrowser", caller |-> c, cdpUrl |-> normalized,
                   inFlight |-> inFlight, started |-> TRUE]
       /\ UNCHANGED <<cached, cacheVars, buildVars, tasks>>

\* a connectBrowser that returns whatever connection is cached
connectBrowser_AnyCached(c, cdpUrl) ==
    LET normalized == normalizeCdpUrl(cdpUrl)
        inFlight == {r \in 1..Len(runs) : runs[r].cdpUrl = normalized /\ InFlight(runs[r])}
        hit == cached # {}
        existing == normalized \in DOMAIN connectingByUrl
    IN /\ callers[c].pc = "idle"
       /\ IF hit
          THEN /\ callers' = [callers EXCEPT ![c] =
                      [pc |-> "done", cdpUrl |-> normalized, run |-> 0, joined |-> FALSE,
                       result |-> [ok |-> TRUE,
                                   value |-> (CHOOSE conn \in cached : TRUE).browser]]]
               /\ UNCHANGED <<runs, connectingByUrl>>
          ELSE IF existing
          THEN /\ callers' = [callers EXCEPT ![c] =
                      [pc |-> "awaiting", cdpUrl |-> normalized,
                       run |-> connectingByUrl[normalized], joined |-> TRUE]]
               /\ UNCHANGED <<runs, connectingByUrl>>
          ELSE /\ runs' = Append(runs, NewRun(normalized))
               /\ connectingByUrl' = Put(connectingByUrl, normalized, Len(runs) + 1)
               /\ callers' = [callers EXCEPT ![c] =
                      [pc |-> "awaiting", cdpUrl |-> normalized, run |-> Len(runs) + 1,
                       joined |-> FALSE]]
       /\ last' = [op |-> "connectBrowser", caller |-> c, cdpUrl |-> normalized,
                   inFlight |-> inFlight, started |-> ~hit /\ ~existing]
       /\ UNCHANGED <<cached, cacheVars, buildVars, tasks>>

\* connectBrowser up to its first await (or its return): the cached connection,
\* the run in flight for the endpoint, or a new run registered in connectingByUrl
connectBrowser(c, cdpUrl) ==
    LET normalized == normalizeCdpUrl(cdpUrl)
        inFlight == {r \in 1..Len(runs) : runs[r].cdpUrl = normalized /\ InFlight(runs[r])}
        hit == \E conn \in cached : conn.cdpUrl = normalized
        existing == normalized \in DOMAIN connectingByUrl
    IN /\ callers[c].pc = "idle"
       /\ IF hit
          THEN /\ callers' = [callers EXCEPT ![c] =
                      [pc |-> "done", cdpUrl |-> normalized, run |-> 0, joined |-> FALSE,
                       result |-> [ok |-> TRUE,
                                   value |-> (CHOOSE conn \in cached : TRUE).browser]]]
               /\ UNCHANGED <<runs, connectingByUrl>>
          ELSE IF existing
          THEN /\ callers' = [callers EXCEPT ![c] =
                      [pc |-> "awaiting", cdpUrl |-> normalized,
                       run |-> connectingByUrl[normalized], joined |-> TRUE]]
               /\ UNCHANGED <<runs, connectingByUrl>>
          ELSE /\ runs' = Append(runs, NewRun(normalized))
               /\ connectingByUrl' = Put(connectingByUrl, normalized, Len(runs) + 1)
               /\ callers' = [callers EXCEPT ![c] =
                      [pc |-> "awaiting", cdpUrl |-> normalized, run |-> Len(runs) + 1,
                       joined |-> FALSE]]
       /\ last' = [op |-> "connectBrowser", caller |-> c, cdpUrl |-> normalized,
                   inFlight |-> inFlight, started |-> ~hit /\ ~existing]
       /\ UNCHANGED <<cached, cacheVars, buildVars, tasks>>

\* getChromeWebSocketUrl settles: its value, or normalized when it failed
\* (.catch(() => null) ?? normalized); connectOverCDP is called with the timeout
\* of this attempt
WsSettles(r, found) ==
    /\ r \in 1..Len(runs)
    /\ runs[r].phase = "ws"
    /\ runs' = [runs EXCEPT ![r].phase = "cdp",
                            ![r].timeouts = Append(@, AttemptTimeout(runs[r].attempt))]
    /\ last' = [op |-> "event"]
    /\ UNCHANGED <<cached, connectingByUrl, callers, cacheVars, buildVars, tasks>>

\* connectOverCDP resolves: cached = connected, the run returns, and the
\* finally callback removes the run from connectingByUrl before any awaiting
\* caller runs
CdpSucceeds(r) ==
    /\ r \in 1..Len(runs)
    /\ runs[r].phase = "cdp"
    /\ cached' = {[browser |-> r, cdpUrl |-> runs[r].cdpUrl]}
    /\ runs' = [runs EXCEPT ![r].phase = "resolved",
                            ![r].result = {[ok |-> TRUE, value |-> r]},
                            ![r].open = TRUE]
    /\ connectingByUrl' = MapDelete(connectingByUrl, runs[r].cdpUrl)
    /\ last' = [op |-> "event"]
    /\ UNCHANGED <<callers, cacheVars, buildVars, tasks>>

\* connectOverCDP rejects: lastErr = err, then the backoff sleep
CdpFails(r, err) ==
    /\ r \in 1..Len(runs)
    /\ runs[r].phase = "cdp"
    /\ runs' = [runs EXCEPT ![r].phase = "backoff",
                            ![r].failed = @ + 1,
                            ![r].thrown = {err},
                            ![r].lastErr = {err}]
    /\ last' = [op |-> "event"]
    /\ UNCHANGED <<cached, connectingByUrl, callers, cacheVars, buildVars, tasks>>

\* a backoff whose run, rejected after the last attempt, stays in connectingByUrl
BackoffEnds_KeepsEntry(r) ==
    /\ r \in 1..Len(runs)
    /\ runs[r].phase = "backoff"
    /\ IF runs[r].attempt + 1 < MAX_ATTEMPTS
       THEN runs' = [runs EXCEPT ![r].attempt = @ + 1,
                                 ![r].phase = "ws",
                                 ![r].wsTimeouts =
                                     Append(@, AttemptTimeout(runs[r].attempt + 1))]
       ELSE runs' = [runs EXCEPT ![r].phase = "rejected",
                                 ![r].result =
                                     {[ok |-> FALSE,
                                       value |-> CHOOSE e \in runs[r].lastErr : TRUE]}]
    /\ last' = [op |-> "event"]
    /\ UNCHANGED <<connectingByUrl, cached, callers, cacheVars, buildVars, tasks>>

\* the backoff sleep ends: the next attempt starts, or after the last attempt
\* the run throws lastErr and the finally callback removes it from
\* connectingByUrl
BackoffEnds(r) ==
    /\ r \in 1..Len(runs)
    /\ runs[r].phase = "backoff"
    /\ IF runs[r].attempt + 1 < MAX_ATTEMPTS
       THEN /\ runs' = [runs EXCEPT ![r].attempt = @ + 1,
                                    ![r].phase = "ws",
                                    ![r].wsTimeouts =
                                        Append(@, AttemptTimeout(runs[r].attempt + 1))]
            /\ UNCHANGED connectingByUrl
       ELSE /\ runs' = [runs EXCEPT ![r].phase = "rejected",
                                    ![r].result =
                                        {[ok |-> FALSE,
                                          value |-> CHOOSE e \in runs[r].lastErr : TRUE]}]
            /\ connectingByUrl' = MapDelete(connectingByUrl, runs[r].cdpUrl)
    /\ last' = [op |-> "event"]
    /\ UNCHANGED <<cached, callers, cacheVars, buildVars, tasks>>

\* `return await existing` / `return await promise`: the caller continues with
\* the settled result of the run it awaits
Resume(c) ==
    /\ callers[c].pc = "awaiting"
    /\ ~InFlight(runs[callers[c].run])
    /\ callers' = [callers EXCEPT ![c] =
           [pc |-> "done", cdpUrl |-> callers[c].cdpUrl, run |-> callers[c].run,
            joined |-> callers[c].joined,
            result |-> CHOOSE res \in runs[callers[c].run].result : TRUE]]
    /\ last' = [op |-> "event"]
    /\ UNCHANGED <<cached, connectingByUrl, runs, cacheVars, buildVars, tasks>>

\* a 'disconnected' handler that leaves cached alone
BrowserDisconnected_KeepsCached(r) ==
    /\ r \in 1..Len(runs)
    /\ runs[r].open
    /\ runs' = [runs EXCEPT ![r].open = FALSE]
    /\ roleRefsByTarget' = PurgeDisconnected(roleRefsByTarget, runs[r].cdpUrl)
    /\ last' = [op |-> "event"]
    /\ UNCHANGED <<cached, connectingByUrl, callers, pageStates, buildVars, tasks>>

\* the 'disconnected' event of a connected browser: cached is cleared when it
\* is this browser, and the endpoint's cache entries are purged
BrowserDisconnected(r) ==
    /\ r \in 1..Len(runs)
    /\ runs[r].open
    /\ runs' = [runs EXCEPT ![r].open = FALSE]
    /\ cached' = {conn \in cached : conn.browser # r}
    /\ roleRefsByTarget' = PurgeDisconnected(roleRefsByTarget, runs[r].cdpUrl)
    /\ last' = [op |-> "event"]
    /\ UNCHANGED <<connectingByUrl, callers, pageStates, buildVars, tasks>>

InitConnect ==
    /\ last = [op |-> "init"]
    /\ BuildIdle
    /\ CacheIdle
    /\ ConnIdle

Connect == \E c \in Callers, cdpUrl \in ConnectUrls : connectBrowser(c, cdpUrl)

WebSocketUrl == \E r \in 1..Len(runs), found \in BOOLEAN : WsSettles(r, found)

Connected == \E r \in 1..Len(runs) : CdpSucceeds(r)

AttemptFailed == \E r \in 1..Len(runs), err \in ConnectErrors : CdpFails(r, err)

Backoff == \E r \in 1..Len(runs) : BackoffEnds(r)

Resumed == \E c \in Callers : Resume(c)

BrowserGone == \E r \in 1..Len(runs) : BrowserDisconnected(r)

NextConnect ==
    Connect \/ WebSocketUrl \/ Connected \/ AttemptFailed \/ Backoff \/ Resumed \/ BrowserGone

\* callers connect to endpoints in any interleaving with the attempts
SpecConnect == InitConnect /\ [][NextConnect]_vars

----------------------------------------------------------------------------
(* Claims about connectBrowser                                             *)

\* C13: at any time at most one connectWithRetry run is in flight per
\* normalized endpoint; a call made while a run for its endpoint is in flight
\* starts no run and awaits that run; every caller that awaited a run ends with
\* the result of that run, the same connection or the same failure.
C13_OneSharedAttempt ==
    /\ \A r, q \in 1..Len(runs) :
           (r # q /\ InFlight(runs[r]) /\ InFlight(runs[q]))
           => runs[r].cdpUrl # runs[q].cdpUrl
    /\ (last.op = "connectBrowser" /\ last.inFlight # {})
       => /\ ~last.started
          /\ callers[last.caller].pc = "awaiting"
          /\ callers[last.caller].run \in last.inFlight
    /\ \A c \in Callers :
           /\ callers[c].pc = "awaiting"
              => runs[callers[c].run].cdpUrl = callers[c].cdpUrl
           /\ (callers[c].pc = "done" /\ callers[c].run # 0)
              => runs[callers[c].run].result = {callers[c].result}

\* C13 witness: two callers of one endpoint, the second having called while the
\* run of the first was in flight, both ended with the connection of that one
\* run, the only run there was.
C13_Witness ==
    \E c, d \in Callers :
        /\ c # d
        /\ callers[c].pc = "done" /\ callers[d].pc = "done"
        /\ callers[c].run = callers[d].run /\ callers[c].run # 0
        /\ ~callers[c].joined /\ callers[d].joined
        /\ callers[c].result.ok
        /\ callers[c].result = callers[d].result
        /\ Len(runs) = 1

\* C14: a run makes at most 3 attempts, the i-th with timeout 5000, 7000, 9000;
\* a resolved run made no attempt after the one that succeeded and all its
\* earlier attempts failed; a rejected run made 3 attempts that all failed and
\* is rejected with what the third attempt threw.
C14_ThreeEscalatingAttempts ==
    \A r \in 1..Len(runs) :
        LET run == runs[r]
            expected == <<5000, 7000, 9000>>
        IN /\ Len(run.timeouts) <= 3
           /\ Len(run.wsTimeouts) <= 3
           /\ \A i \in 1..Len(run.timeouts) : run.timeouts[i] = expected[i]
           /\ \A i \in 1..Len(run.wsTimeouts) : run.wsTimeouts[i] = expected[i]
           /\ run.phase = "resolved" => run.failed = Len(run.timeouts) - 1
           /\ run.phase = "rejected"
              => /\ run.failed = 3
                 /\ Len(run.timeouts) = 3
                 /\ run.result = {[ok |-> FALSE, value |-> CHOOSE e \in run.thrown : TRUE]}
           /\ InFlight(run) => run.failed < 3 \/ run.phase = "backoff"

\* C14 witness: one run was rejected after attempts with 5000, 7000 and 9000,
\* another resolved on its second attempt.
C14_Witness ==
    \E r, q \in 1..Len(runs) :
        /\ runs[r].phase = "rejected"
        /\ runs[r].timeouts = <<5000, 7000, 9000>>
        /\ runs[q].phase = "resolved"
        /\ runs[q].timeouts = <<5000, 7000>>

----------------------------------------------------------------------------
(* Snapshots and ref actions that overlap                                  *)
(*                                                                         *)
(* Every exported call is an async function: it runs until its next await  *)
(* and gives way there.  snapshotRole awaits the page lookup and then the   *)
(* engine's accessibility text; clickViaPlaywright awaits the page lookup   *)
(* and then the click of the locator it resolved.  What lies between two    *)
(* awaits is one step.                                                     *)

\* bound: the number of snapshot and click calls
MaxTasks == 3

\* the page every call of this specification is about: the first page of the
\* browser, which getPageForTargetId returns for target id "A" and without one
ASYNC_PAGE == "p1"

\* what a snapshot call is about to store: the table its builder will return,
\* the frame selector and the mode of the call
AsyncContents ==
    {<<TABLE_DUP, {}, {"role"}>>,
     <<TABLE_LINK, {FRAME}, {"role"}>>,
     <<TABLE_AI, {}, {"aria"}>>}

\* opts.targetId of a call
AsyncTargets == {{TARGET_A}, {}}

\* the snapshot calls that have stored their table
StoredSnapshots(ts) ==
    {i \in 1..Len(ts) : ts[i].kind = "snapshot" /\ ts[i].pc = "done"}

\* the snapshot calls that are suspended at an await
SuspendedSnapshots(ts) ==
    {i \in 1..Len(ts) : ts[i].kind = "snapshot" /\ ts[i].pc # "done"}

\* the number of stores run so far
StoreCount(ts) == Cardinality(StoredSnapshots(ts))

\* snapshotRole / snapshotAi is called and suspends at getPageForTargetId
snapshot(content, targetIdOpt) ==
    /\ Len(tasks) < MaxTasks
    /\ tasks' = Append(tasks,
           [kind |-> "snapshot", pc |-> "page", targetId |-> targetIdOpt,
            refs |-> content[1], frameSelector |-> content[2], mode |-> content[3],
            during |-> SuspendedSnapshots(tasks), order |-> 0])
    /\ last' = [op |-> "event"]
    /\ UNCHANGED <<cacheVars, buildVars, connVars>>

\* the page lookup of snapshot call i resolves: ensurePageState, then the call
\* suspends at the engine's ariaSnapshot / _snapshotForAI
SnapshotFindsPage(i) ==
    /\ tasks[i].kind = "snapshot"
    /\ tasks[i].pc = "page"
    /\ pageStates' = ensurePageState(pageStates, ASYNC_PAGE)
    /\ tasks' = [tasks EXCEPT ![i].pc = "engine"]
    /\ last' = [op |-> "event"]
    /\ UNCHANGED <<roleRefsByTarget, buildVars, connVars>>

\* the engine answers snapshot call i: the builder runs and storeRoleRefsForTarget
\* writes the session and the cache, all before the call returns
SnapshotStores(i) ==
    /\ tasks[i].kind = "snapshot"
    /\ tasks[i].pc = "engine"
    /\ pageStates' = StoreSession(pageStates, ASYNC_PAGE, tasks[i].refs,
                                  tasks[i].frameSelector, tasks[i].mode)
    /\ roleRefsByTarget' = StoreCache(roleRefsByTarget, URL_H, tasks[i].targetId,
                                      tasks[i].refs, tasks[i].frameSelector, tasks[i].mode)
    /\ tasks' = [tasks EXCEPT ![i].pc = "done", ![i].order = StoreCount(tasks) + 1]
    /\ last' = [op |-> "event"]
    /\ UNCHANGED <<buildVars, connVars>>

\* clickViaPlaywright is called with a ref the client read in the snapshot that
\* call `from` returned, and suspends at getPageForTargetId
click(ref, from) ==
    /\ Len(tasks) < MaxTasks
    /\ from \in StoredSnapshots(tasks)
    /\ ref \in DOMAIN tasks[from].refs
    /\ tasks' = Append(tasks,
           [kind |-> "click", pc |-> "page", targetId |-> {TARGET_A}, ref |-> ref,
            from |-> from, seen |-> 0, result |-> [outcome |-> "none", locator |-> {}]])
    /\ last' = [op |-> "event"]
    /\ UNCHANGED <<cacheVars, buildVars, connVars>>

\* the page lookup of click call i resolves: ensurePageState, restore and refLocator
\* run one after the other; an unknown ref rejects the call, a locator is clicked
\* and the call suspends until the click settles
ClickResolves(i) ==
    /\ tasks[i].kind = "click"
    /\ tasks[i].pc = "page"
    /\ \E restored \in {RestoreSession(ensurePageState(pageStates, ASYNC_PAGE),
                                       roleRefsByTarget, ASYNC_PAGE, URL_H,
                                       tasks[i].targetId)} :
       \E r \in {refLocator(restored, ASYNC_PAGE, tasks[i].ref)} :
          /\ pageStates' = restored
          /\ tasks' = [tasks EXCEPT
                 ![i].pc = IF r.outcome = "locator" THEN "acting" ELSE "failed",
                 ![i].seen = StoreCount(tasks),
                 ![i].result = r]
    /\ last' = [op |-> "event"]
    /\ UNCHANGED <<roleRefsByTarget, buildVars, connVars>>

\* the click of the locator of call i settles
ClickSettles(i) ==
    /\ tasks[i].kind = "click"
    /\ tasks[i].pc = "acting"
    /\ tasks' = [tasks EXCEPT ![i].pc = "done"]
    /\ last' = [op |-> "event"]
    /\ UNCHANGED <<cacheVars, buildVars, connVars>>

SnapshotCalled ==
    \E content \in AsyncContents, targetIdOpt \in AsyncTargets :
        snapshot(content, targetIdOpt)

SnapshotPageFound == \E i \in 1..Len(tasks) : SnapshotFindsPage(i)

SnapshotStored == \E i \in 1..Len(tasks) : SnapshotStores(i)

ClickCalled ==
    \E from \in 1..Len(tasks), ref \in {REF_E1, REF_E2, REF_E5} : click(ref, from)

ClickResolved == \E i \in 1..Len(tasks) : ClickResolves(i)

ClickSettled == \E i \in 1..Len(tasks) : ClickSettles(i)

NextAsync ==
    \/ SnapshotCalled
    \/ SnapshotPageFound
    \/ SnapshotStored
    \/ ClickCalled
    \/ ClickResolved
    \/ ClickSettled

\* snapshot and click calls on one page, interleaved at their awaits
SpecAsync == InitEmpty /\ [][NextAsync]_vars

----------------------------------------------------------------------------
(* Claims about overlapping snapshots and ref actions                      *)

\* the click calls that have run refLocator
ResolvedClicks == {i \in 1..Len(tasks) : tasks[i].kind = "click" /\ tasks[i].pc # "page"}

\* the snapshot call whose store was the n-th to run
StoreNo(n) == CHOOSE j \in StoredSnapshots(tasks) : tasks[j].order = n

\* C15: a ref token read in a snapshot of one scope (the root, or a sub-frame) is
\* never resolved against a session whose current snapshot has another scope: that
\* resolution fails instead of returning a locator.
C15_ScopeMismatchFails ==
    \A i \in ResolvedClicks :
        (/\ tasks[i].seen > 0
         /\ tasks[StoreNo(tasks[i].seen)].frameSelector # tasks[tasks[i].from].frameSelector)
        => tasks[i].result.outcome # "locator"

\* the session a snapshot call stores: its table, its scope and its mode
SessionOf(task) ==
    [roleRefs |-> {task.refs}, roleRefsFrameSelector |-> task.frameSelector,
     roleRefsMode |-> task.mode]

\* the page states in which the page holds the session of one snapshot call
StatesOf(task) == [p \in Pages |-> IF p = ASYNC_PAGE THEN {SessionOf(task)} ELSE {}]

\* C16: when a snapshot of the page completes while a ref action on it is
\* suspended at an await, the action either fails its ref lookup or holds the
\* locator it resolved from the table, scope and mode of one snapshot; and in
\* every interleaving the live session and the cache entry of the page hold the
\* table, scope and mode of one snapshot, never parts of two.
C16_OneWholeTable ==
    /\ \A i \in ResolvedClicks :
           /\ tasks[i].seen > 0
           /\ tasks[i].result =
                  refLocator(StatesOf(tasks[StoreNo(tasks[i].seen)]), ASYNC_PAGE, tasks[i].ref)
           /\ (tasks[i].pc = "failed") = (tasks[i].result.outcome = "UnknownRef")
    /\ \A s \in pageStates[ASYNC_PAGE] :
           s.roleRefs # {} =>
               \E j \in StoredSnapshots(tasks) : s = SessionOf(tasks[j])
    /\ \A e \in CacheGet(roleRefsByTarget, KEY_H_A) :
           \E j \in StoredSnapshots(tasks) :
               e = CacheEntry(KEY_H_A, tasks[j].refs, tasks[j].frameSelector, tasks[j].mode)

\* a click resolved its ref, a snapshot with another table was stored while the
\* click was suspended, and the click settled with the locator it had resolved
C16_Witness ==
    \E i \in ResolvedClicks :
        /\ tasks[i].pc = "done"
        /\ tasks[i].result.outcome = "locator"
        /\ tasks[i].seen < StoreCount(tasks)
        /\ tasks[StoreNo(StoreCount(tasks))].refs # tasks[StoreNo(tasks[i].seen)].refs
        /\ ~ (tasks[i].ref \in DOMAIN tasks[StoreNo(StoreCount(tasks))].refs)

\* the snapshot call whose store ran last
LastStore == tasks[StoreNo(StoreCount(tasks))]

\* the stored snapshot calls that carried a target id
KeyedStores == {j \in StoredSnapshots(tasks) : tasks[j].targetId # {}}

\* the last of the stored snapshot calls that carried a target id
LastKeyedStore ==
    tasks[CHOOSE j \in KeyedStores : \A k \in KeyedStores : tasks[k].order <= tasks[j].order]

\* two snapshot calls overlapped, both have stored, and no store ran after theirs
TwoOverlappingStored ==
    \E i, j \in StoredSnapshots(tasks) :
        /\ i \in tasks[j].during
        /\ StoreCount(tasks) \in {tasks[i].order, tasks[j].order}

\* C17 as stated: after two overlapping snapshots of one page have both completed,
\* the live session and the cache entry of the page hold the table of the snapshot
\* whose store ran last.
C17_SessionAndCacheHoldLastStore ==
    TwoOverlappingStored =>
        /\ Session(pageStates, ASYNC_PAGE).roleRefs = {LastStore.refs}
        /\ \E e \in CacheGet(roleRefsByTarget, KEY_H_A) : e.refs = LastStore.refs

\* C17, amended: in every state any operation can observe, the live session is the
\* one the last store wrote and the cache is the one that same store left: the
\* entry of the page is that store's when its call carried the target id, and
\* otherwise still the entry of the last store that did (none if there was none).
C17_StoreAtomic ==
    StoreCount(tasks) > 0 =>
        /\ pageStates[ASYNC_PAGE] = {SessionOf(LastStore)}
        /\ CacheGet(roleRefsByTarget, KEY_H_A) =
               IF KeyedStores = {} THEN {}
               ELSE {CacheEntry(KEY_H_A, LastKeyedStore.refs, LastKeyedStore.frameSelector,
                                LastKeyedStore.mode)}
        /\ LastStore.targetId # {} => LastKeyedStore = LastStore

\* two snapshot calls with the target id overlapped, the one called first stored
\* last, and session and cache entry hold its table, not the other one's
C17_Witness ==
    \E i, j \in StoredSnapshots(tasks) :
        /\ i < j
        /\ i \in tasks[j].during
        /\ tasks[i].targetId # {} /\ tasks[j].targetId # {}
        /\ tasks[i].refs # tasks[j].refs
        /\ tasks[i].order = StoreCount(tasks)
        /\ tasks[j].order < tasks[i].order
        /\ Session(pageStates, ASYNC_PAGE).roleRefs = {tasks[i].refs}
        /\ \E e \in CacheGet(roleRefsByTarget, KEY_H_A) : e.refs = tasks[i].refs

----------------------------------------------------------------------------
(* Claims about what a store leaves behind and how direct mode resolves    *)

\* the session a store call was given
StoredSession(call) ==
    [roleRefs |-> {call.refs}, roleRefsFrameSelector |-> call.frameSelector,
     roleRefsMode |-> call.mode]

\* the cache entry a store call with a target id was given
StoredEntry(call) ==
    CacheEntry(CHOOSE k \in call.key : TRUE, call.refs, call.frameSelector, call.mode)

\* C18 as stated: after any store the live session of the page holds the stored
\* table, scope and mode and the cache has an entry for the call's key holding
\* them, unless that same call's eviction removed it.
C18_EveryStoreWritesCache ==
    last.op = "store" =>
        /\ pageStates[last.page] = {StoredSession(last)}
        /\ last.key # {}
        /\ \/ CacheGet(roleRefsByTarget, CHOOSE k \in last.key : TRUE) = {StoredEntry(last)}
           \/ /\ last.evicted > 0
              /\ ~ (last.key \subseteq KeySet(roleRefsByTarget))

\* C18, amended: every store writes the stored table, scope and mode to the live
\* session of the page; a store with a non-blank target id also leaves a cache
\* entry under its key holding them (its own eviction never removes that entry),
\* and a store without one leaves the cache as it was.
C18_StoreWritesSessionAndKeyedCache ==
    [][last'.op = "store" =>
          /\ pageStates'[last'.page] = {StoredSession(last')}
          /\ IF last'.key = {}
             THEN roleRefsByTarget' = roleRefsByTarget
             ELSE CacheGet(roleRefsByTarget', CHOOSE k \in last'.key : TRUE)
                      = {StoredEntry(last')}]_vars

\* a store with a target id into a full cache: one entry was evicted, the stored
\* entry is the newest of the cache and the session holds the same table
C18_Witness ==
    /\ last.op = "store"
    /\ last.key # {}
    /\ last.evicted > 0
    /\ roleRefsByTarget[Len(roleRefsByTarget)] = StoredEntry(last)
    /\ pageStates[last.page] = {StoredSession(last)}

\* the refs of the table the page had before a store that the stored table lacks
DroppedRefs(states, call) ==
    {ref \in UNION {DOMAIN t : t \in Session(states, call.page).roleRefs} :
        ref \notin DOMAIN call.refs}

\* C19 as stated: after store(table, mode, scope) the session of the page holds
\* exactly the stored table, mode and scope (no scope when none was supplied), and
\* no ref of the previous table that the new table lacks still resolves.
C19_NoStaleRefResolves ==
    [][last'.op = "store" =>
          /\ pageStates'[last'.page] = {StoredSession(last')}
          /\ \A ref \in DroppedRefs(pageStates, last') :
                 refLocator(pageStates', last'.page, ref).outcome = "UnknownRef"]_vars

\* C19, amended: after store(table, mode, scope) the session of the page holds
\* exactly the stored table, mode and scope (no scope when none was supplied);
\* when the stored mode is the computed (role) mode, no ref of the previous table
\* that the new table lacks still resolves; in direct (aria) mode such a ref is
\* handed to the engine like any other token.
C19_StoreOverwritesSession ==
    [][last'.op = "store" =>
          /\ pageStates'[last'.page] = {StoredSession(last')}
          /\ \A ref \in DroppedRefs(pageStates, last') :
                 refLocator(pageStates', last'.page, ref) =
                     IF last'.mode = {"aria"}
                     THEN [outcome |-> "locator",
                           locator |-> {AriaRefLocator(last'.frameSelector, ref)}]
                     ELSE [outcome |-> "UnknownRef", locator |-> {}]]_vars

\* page p1 had the frame-scoped table with e1 (its cache entry still shows it),
\* then stored an empty root table: the session has no scope any more and e1 was
\* just refused
C19_Witness ==
    /\ last.op = "resolve"
    /\ last.page = "p1"
    /\ NormalizeRef(last.ref) = REF_E1
    /\ last.result.outcome = "UnknownRef"
    /\ pageStates["p1"] =
           {[roleRefs |-> {TABLE_EMPTY}, roleRefsFrameSelector |-> {}, roleRefsMode |-> {"role"}]}
    /\ CacheGet(roleRefsByTarget, KEY_H_A) = {CacheEntry(KEY_H_A, TABLE_LINK, {FRAME}, {"role"})}

\* the engine's stable-reference lookup of a token, from a frame or from the page
EngineLookup(scope, token) ==
    [outcome |-> "locator",
     locator |-> {[by |-> "aria-ref", scope |-> scope, ref |-> token, role |-> <<>>,
                   name |-> {}, nth |-> {}]}]

\* tables a session can hold
TableContents == {TABLE_DUP, TABLE_LINK, TABLE_AI, TABLE_EMPTY}

\* the page states with the table of one page replaced
WithTable(states, page, table) ==
    [states EXCEPT ![page] = {[Session(states, page) EXCEPT !.roleRefs = {table}]}]

\* a ref was just resolved on a page whose session is in direct mode
DirectResolve ==
    /\ last.op = "resolve"
    /\ Session(pageStates, last.page).roleRefsMode = {"aria"}

\* C20 as stated: in direct mode a resolution never gives the unknown-ref error
\* whatever the token and the table, it hands the normalized token unchanged to
\* the engine's lookup, and the lookup is made inside the session's sub-frame
\* whenever the session has a frame selector.
C20_DirectLookupAlwaysScoped ==
    DirectResolve =>
        \A table \in TableContents :
            refLocator(WithTable(pageStates, last.page, table), last.page, last.ref) =
                EngineLookup(Session(pageStates, last.page).roleRefsFrameSelector,
                             NormalizeRef(last.ref))

\* C20, amended: in direct mode a resolution never gives the unknown-ref error
\* whatever the token and the table, and it hands the normalized token unchanged
\* to the engine's lookup; the lookup is made inside the session's sub-frame when
\* the session has a frame selector and the token is "e" followed by digits, and
\* from the page root for every other token.
C20_DirectLookupScopedForERefs ==
    DirectResolve =>
        /\ last.result = refLocator(pageStates, last.page, last.ref)
        /\ \A table \in TableContents :
               refLocator(WithTable(pageStates, last.page, table), last.page, last.ref) =
                   EngineLookup(IF IsERef(NormalizeRef(last.ref))
                                THEN Session(pageStates, last.page).roleRefsFrameSelector
                                ELSE {},
                                NormalizeRef(last.ref))

\* "@e7" was resolved on a page whose direct-mode session is scoped to the frame
\* and whose table has no e7: the engine is asked for e7 inside the frame
C20_Witness ==
    /\ DirectResolve
    /\ Session(pageStates, last.page).roleRefsFrameSelector = {FRAME}
    /\ Session(pageStates, last.page).roleRefs = {TABLE_AI}
    /\ last.ref = <<"@">> \o REF_E7
    /\ last.result = EngineLookup({FRAME}, REF_E7)

----------------------------------------------------------------------------
(* Claims about token normalization                                        *)

\* refs as snapshots issue them: computed refs, engine refs, an engine ref of a
\* sub-frame
IssuedRefs == {REF_E1, REF_E2, REF_E5, REF_E7, REF_F1E2}

\* C21: for every ref r and every session state, resolving "@" + r, resolving
\* "ref=" + r and resolving r give the same outcome: the same locator or the same
\* error.
C21_PrefixesResolveAlike ==
    \A page \in Pages : \A r \in IssuedRefs :
        /\ refLocator(pageStates, page, <<"@">> \o r) = refLocator(pageStates, page, r)
        /\ refLocator(pageStates, page, <<"r", "e", "f", "=">> \o r)
               = refLocator(pageStates, page, r)

\* "@e1" was just resolved to a role locator, the one "ref=e1" and "e1" give, and
\* on the same page "@e7", "ref=e7" and "e7" are all refused
C21_Witness ==
    /\ last.op = "resolve"
    /\ last.ref = <<"@">> \o REF_E1
    /\ last.result.outcome = "locator"
    /\ \E loc \in last.result.locator : loc.by = "role"
    /\ refLocator(pageStates, last.page, <<"r", "e", "f", "=">> \o REF_E1) = last.result
    /\ refLocator(pageStates, last.page, REF_E1) = last.result
    /\ \A t \in {REF_E7, <<"@">> \o REF_E7, <<"r", "e", "f", "=">> \o REF_E7} :
           refLocator(pageStates, last.page, t).outcome = "UnknownRef"

----------------------------------------------------------------------------
(* The actions: their timeouts, their errors, cancellation of evaluate     *)

\* a JavaScript number: NaN, or a value
NaN == [nan |-> TRUE, value |-> 0]

Num(n) == [nan |-> FALSE, value |-> n]

\* Math.min: NaN when an argument is NaN
MathMin(a, b) ==
    IF a.nan \/ b.nan THEN NaN ELSE IF a.value <= b.value THEN a ELSE b

\* Math.max: NaN when an argument is NaN
MathMax(a, b) ==
    IF a.nan \/ b.nan THEN NaN ELSE IF a.value >= b.value THEN a ELSE b

\* Math.max(500, Math.min(maxMs, timeoutMs ?? fallback))
normalizeTimeoutMs(timeoutMs, fallback, maxMs) ==
    MathMax(Num(500),
            MathMin(Num(maxMs),
                    IF timeoutMs = {} THEN Num(fallback) ELSE CHOOSE t \in timeoutMs : TRUE))

\* message.match(/resolved to (\d+) elements/): the digits of the first match, or
\* no match
ResolvedCount(message) ==
    LET head == <<"r", "e", "s", "o", "l", "v", "e", "d", " ", "t", "o", " ">>
        tail == <<" ", "e", "l", "e", "m", "e", "n", "t", "s">>
        digitsAt(i) == Run(message, i + Len(head), Digits)
        matches == {i \in 1..Len(message) :
                       /\ Slice(message, i, i + Len(head) - 1) = head
                       /\ digitsAt(i) > 0
                       /\ Slice(message, i + Len(head) + digitsAt(i),
                                i + Len(head) + digitsAt(i) + Len(tail) - 1) = tail}
    IN IF matches = {} THEN {}
       ELSE LET i == CHOOSE m \in matches : \A n \in matches : m <= n
            IN {Slice(message, i + Len(head), i + Len(head) + digitsAt(i) - 1)}

\* the errors toAIFriendlyError returns: one of its three messages about
\* `selector`, or the error it was given
FriendlyError(class, selector, count) ==
    [class |-> class, selector |-> selector, count |-> count, message |-> <<>>]

RawError(message) ==
    [class |-> "raw", selector |-> <<>>, count |-> <<>>, message |-> message]

\* a classification that tests for a blocked element before a visibility timeout
toAIFriendlyError_BlockedFirst(message, selector) ==
    IF Includes(message, <<"s", "t", "r", "i", "c", "t", " ", "m", "o", "d", "e", " ", "v", "i", "o", "l", "a", "t", "i", "o", "n">>)
    THEN FriendlyError("ambiguous", selector,
                       IF ResolvedCount(message) = {} THEN <<"m", "u", "l", "t", "i", "p", "l", "e">>
                       ELSE CHOOSE c \in ResolvedCount(message) : TRUE)
    ELSE IF \/ Includes(message, <<"i", "n", "t", "e", "r", "c", "e", "p", "t", "s", " ", "p", "o", "i", "n", "t", "e", "r", " ", "e", "v", "e", "n", "t", "s">>)
            \/ Includes(message, <<"n", "o", "t", " ", "v", "i", "s", "i", "b", "l", "e">>)
            \/ Includes(message, <<"n", "o", "t", " ", "r", "e", "c", "e", "i", "v", "e", " ", "p", "o", "i", "n", "t", "e", "r", " ", "e", "v", "e", "n", "t", "s">>)
    THEN FriendlyError("notInteractable", selector, <<>>)
    ELSE IF /\ Includes(message, <<"T", "i", "m", "e", "o", "u", "t">>) \/ Includes(message, <<"w", "a", "i", "t", "i", "n", "g", " ", "f", "o", "r">>)
            /\ Includes(message, <<"t", "o", " ", "b", "e", " ", "v", "i", "s", "i", "b", "l", "e">>) \/ Includes(message, <<"n", "o", "t", " ", "v", "i", "s", "i", "b", "l", "e">>)
    THEN FriendlyError("notFound", selector, <<>>)
    ELSE RawError(message)

\* toAIFriendlyError(error, selector) for an Error with the given message
toAIFriendlyError(message, selector) ==
    IF Includes(message, <<"s", "t", "r", "i", "c", "t", " ", "m", "o", "d", "e", " ", "v", "i", "o", "l", "a", "t", "i", "o", "n">>)
    THEN FriendlyError("ambiguous", selector,
                       IF ResolvedCount(message) = {} THEN <<"m", "u", "l", "t", "i", "p", "l", "e">>
                       ELSE CHOOSE c \in ResolvedCount(message) : TRUE)
    ELSE IF /\ Includes(message, <<"T", "i", "m", "e", "o", "u", "t">>) \/ Includes(message, <<"w", "a", "i", "t", "i", "n", "g", " ", "f", "o", "r">>)
            /\ Includes(message, <<"t", "o", " ", "b", "e", " ", "v", "i", "s", "i", "b", "l", "e">>) \/ Includes(message, <<"n", "o", "t", " ", "v", "i", "s", "i", "b", "l", "e">>)
    THEN FriendlyError("notFound", selector, <<>>)
    ELSE IF \/ Includes(message, <<"i", "n", "t", "e", "r", "c", "e", "p", "t", "s", " ", "p", "o", "i", "n", "t", "e", "r", " ", "e", "v", "e", "n", "t", "s">>)
            \/ Includes(message, <<"n", "o", "t", " ", "v", "i", "s", "i", "b", "l", "e">>)
            \/ Includes(message, <<"n", "o", "t", " ", "r", "e", "c", "e", "i", "v", "e", " ", "p", "o", "i", "n", "t", "e", "r", " ", "e", "v", "e", "n", "t", "s">>)
    THEN FriendlyError("notInteractable", selector, <<>>)
    ELSE RawError(message)

\* `Unknown ref "${normalized}". Run a new snapshot and use a ref from that snapshot.`
UnknownRefMessage(ref) ==
    <<"U", "n", "k", "n", "o", "w", "n", " ", "r", "e", "f", " ", "\"">> \o NormalizeRef(ref)
    \o <<"\"", ".", " ", "R", "u", "n", " ", "a", " ", "n", "e", "w", " ", "s", "n", "a", "p", "s", "h", "o", "t", " ", "a", "n", "d", " ", "u", "s", "e", " ", "a", " ", "r", "e", "f", " ", "f", "r", "o", "m", " ", "t", "h", "a", "t", " ", "s", "n", "a", "p", "s", "h", "o", "t", ".">>

\* a failure of an engine call: what happened in the browser, and the message of
\* the error the engine throws for it
Failure(what, count, message) == [what |-> what, count |-> count, message |-> message]

EngineFailures ==
    { Failure({"strict"}, {<<"2">>}, <<"s", "t", "r", "i", "c", "t", " ", "m", "o", "d", "e", " ", "v", "i", "o", "l", "a", "t", "i", "o", "n", ":", " ", "r", "e", "s", "o", "l", "v", "e", "d", " ", "t", "o", " ", "2", " ", "e", "l", "e", "m", "e", "n", "t", "s">>),
      Failure({"strict"}, {<<"1", "2">>},
              <<"s", "t", "r", "i", "c", "t", " ", "m", "o", "d", "e", " ", "v", "i", "o", "l", "a", "t", "i", "o", "n", ":", " ", "r", "e", "s", "o", "l", "v", "e", "d", " ", "t", "o", " ", "1", "2", " ", "e", "l", "e", "m", "e", "n", "t", "s", ":", " ", "1", ")", " ", "n", "o", "t", " ", "v", "i", "s", "i", "b", "l", "e">>),
      Failure({"strict"}, {}, <<"s", "t", "r", "i", "c", "t", " ", "m", "o", "d", "e", " ", "v", "i", "o", "l", "a", "t", "i", "o", "n">>),
      Failure({"timeout", "visibility"}, {},
              <<"T", "i", "m", "e", "o", "u", "t", " ", "8", "0", "0", "0", "m", "s", " ", "e", "x", "c", "e", "e", "d", "e", "d", ".", " ", "w", "a", "i", "t", "i", "n", "g", " ", "f", "o", "r", " ", "e", "l", "e", "m", "e", "n", "t", " ", "t", "o", " ", "b", "e", " ", "v", "i", "s", "i", "b", "l", "e">>),
      Failure({"timeout", "visibility"}, {},
              <<"T", "i", "m", "e", "o", "u", "t", " ", "8", "0", "0", "0", "m", "s", " ", "e", "x", "c", "e", "e", "d", "e", "d", ".", " ", "e", "l", "e", "m", "e", "n", "t", " ", "i", "s", " ", "n", "o", "t", " ", "v", "i", "s", "i", "b", "l", "e">>),
      Failure({"visibility"}, {}, <<"e", "l", "e", "m", "e", "n", "t", " ", "i", "s", " ", "n", "o", "t", " ", "v", "i", "s", "i", "b", "l", "e">>),
      Failure({"timeout", "intercepted"}, {},
              <<"T", "i", "m", "e", "o", "u", "t", " ", "8", "0", "0", "0", "m", "s", " ", "e", "x", "c", "e", "e", "d", "e", "d", ".", " ", "<", "d", "i", "v", ">", " ", "i", "n", "t", "e", "r", "c", "e", "p", "t", "s", " ", "p", "o", "i", "n", "t", "e", "r", " ", "e", "v", "e", "n", "t", "s">>),
      Failure({"intercepted"}, {}, <<"e", "l", "e", "m", "e", "n", "t", " ", "d", "o", "e", "s", " ", "n", "o", "t", " ", "r", "e", "c", "e", "i", "v", "e", " ", "p", "o", "i", "n", "t", "e", "r", " ", "e", "v", "e", "n", "t", "s">>),
      Failure({"timeout"}, {}, <<"T", "i", "m", "e", "o", "u", "t", " ", "8", "0", "0", "0", "m", "s", " ", "e", "x", "c", "e", "e", "d", "e", "d", ".">>),
      Failure({"closed"}, {}, <<"T", "a", "r", "g", "e", "t", " ", "c", "l", "o", "s", "e", "d">>) }

\* the actions that address an element by ref and clamp their timeout to
\* (8000, 60000)
RefKinds == {"click", "hover", "type", "selectOption", "drag", "fillForm"}

\* the waits and the navigation: no ref, timeout clamped to (20000, 120000)
WaitKinds == {"waitFor", "navigate"}

\* the actions that call refLocator before their try block
ResolveOutsideTry == {"click", "type", "fillForm"}

\* timeoutMs as callers pass it: undefined, or a number
RequestedTimeouts ==
    { {}, {NaN}, {Num(0)}, {Num(499)}, {Num(500)}, {Num(8000)}, {Num(60000)},
      {Num(60001)}, {Num(120000)}, {Num(120001)} }

ActionRefs == {REF_E1, <<"@">> \o REF_E2, REF_E7}

ACTION_PAGE == "p1"

\* the selector an action reports in its errors: the ref, or for a drag
\* `${startRef} -> ${endRef}`
SelectorOf(call) ==
    IF call.kind = "drag"
    THEN (CHOOSE r \in call.ref : TRUE) \o <<" ", "-", ">", " ">> \o (CHOOSE r \in call.endRef : TRUE)
    ELSE CHOOSE r \in call.ref : TRUE

\* the call in flight, if any
NoCallInFlight == \A i \in 1..Len(tasks) : tasks[i].pc \in {"resolved", "rejected"}

\* an action is called and suspends at getPageForTargetId. `signal` is "none"
\* when no AbortSignal is passed, "idle" for one not yet aborted and "raised" for
\* one that is already aborted
ActionCall(kind, refOpt, endRefOpt, timeoutMs, signal) ==
    /\ NoCallInFlight
    /\ tasks' = <<[kind |-> kind, pc |-> "page", ref |-> refOpt, endRef |-> endRefOpt,
                   timeoutMs |-> timeoutMs, timeout |-> {}, signal |-> signal,
                   listening |-> FALSE, engine |-> "idle", failure |-> {},
                   error |-> {}]>>
    /\ last' = [op |-> "event"]
    /\ UNCHANGED <<cacheVars, buildVars, connVars>>

\* the page lookup of a ref action resolves: ensurePageState, restore, refLocator
\* and normalizeTimeoutMs run, and the engine call starts unless the ref is unknown
RefActionFindsPage ==
    /\ tasks # <<>>
    /\ tasks[1].kind \in RefKinds
    /\ tasks[1].pc = "page"
    /\ \E restored \in {RestoreSession(ensurePageState(pageStates, ACTION_PAGE),
                                       roleRefsByTarget, ACTION_PAGE, URL_H, {TARGET_A})} :
          /\ pageStates' = restored
          /\ LET call == tasks[1]
                 refs == call.ref \cup call.endRef
                 unknown == {r \in refs :
                                refLocator(restored, ACTION_PAGE, r).outcome = "UnknownRef"}
                 first == IF call.ref \subseteq unknown THEN call.ref ELSE call.endRef
                 message == UnknownRefMessage(CHOOSE r \in first : TRUE)
             IN tasks' =
                    IF unknown = {}
                    THEN <<[call EXCEPT !.pc = "engine", !.engine = "running",
                                        !.timeout = {normalizeTimeoutMs(call.timeoutMs,
                                                                        8000, 60000)}]>>
                    ELSE <<[call EXCEPT !.pc = "rejected",
                                        !.error =
                                            IF call.kind \in ResolveOutsideTry
                                            THEN {RawError(message)}
                                            ELSE {toAIFriendlyError(message,
                                                                    SelectorOf(call))}]>>
    /\ last' = [op |-> "event"]
    /\ UNCHANGED <<roleRefsByTarget, buildVars, connVars>>

\* the page lookup of a wait or a navigation resolves: ensurePageState and
\* normalizeTimeoutMs run and the engine call starts
WaitFindsPage ==
    /\ tasks # <<>>
    /\ tasks[1].kind \in WaitKinds
    /\ tasks[1].pc = "page"
    /\ pageStates' = ensurePageState(pageStates, ACTION_PAGE)
    /\ tasks' = <<[tasks[1] EXCEPT !.pc = "engine", !.engine = "running",
                                   !.timeout = {normalizeTimeoutMs(tasks[1].timeoutMs,
                                                                   20000, 120000)}]>>
    /\ last' = [op |-> "event"]
    /\ UNCHANGED <<roleRefsByTarget, buildVars, connVars>>

\* the page lookup of evaluateViaPlaywright resolves. With a ref the call awaits
\* locator.evaluate; without one it starts page.evaluate and, when a signal was
\* passed, races it against a promise that an 'abort' event rejects
EvaluateFindsPage ==
    /\ tasks # <<>>
    /\ tasks[1].kind = "evaluate"
    /\ tasks[1].pc = "page"
    /\ \E restored \in {RestoreSession(ensurePageState(pageStates, ACTION_PAGE),
                                       roleRefsByTarget, ACTION_PAGE, URL_H, {TARGET_A})} :
          /\ pageStates' = restored
          /\ LET call == tasks[1]
                 unknown == {r \in call.ref :
                                refLocator(restored, ACTION_PAGE, r).outcome = "UnknownRef"}
             IN tasks' =
                    IF unknown # {}
                    THEN <<[call EXCEPT !.pc = "rejected",
                                        !.error = {RawError(UnknownRefMessage(
                                                       CHOOSE r \in unknown : TRUE))}]>>
                    ELSE <<[call EXCEPT !.pc = "engine", !.engine = "running",
                                        !.listening = (call.ref = {}
                                                       /\ call.signal # "none")]>>
    /\ last' = [op |-> "event"]
    /\ UNCHANGED <<roleRefsByTarget, buildVars, connVars>>

\* the engine call resolves; a call that already settled ignores it
EngineResolves ==
    /\ tasks # <<>>
    /\ tasks[1].engine = "running"
    /\ tasks' = <<[tasks[1] EXCEPT !.engine = "settled",
                                   !.pc = IF @ = "engine" THEN "resolved" ELSE @]>>
    /\ last' = [op |-> "event"]
    /\ UNCHANGED <<cacheVars, buildVars, connVars>>

\* the engine call rejects: a ref action throws toAIFriendlyError(err, selector),
\* the other actions let the engine's error through
EngineRejects(failure) ==
    /\ tasks # <<>>
    /\ tasks[1].engine = "running"
    /\ tasks' =
           IF tasks[1].pc # "engine" THEN <<[tasks[1] EXCEPT !.engine = "settled"]>>
           ELSE <<[tasks[1] EXCEPT
                      !.engine = "settled", !.pc = "rejected", !.failure = {failure},
                      !.error = IF tasks[1].kind \in RefKinds
                                THEN {toAIFriendlyError(failure.message,
                                                        SelectorOf(tasks[1]))}
                                ELSE {RawError(failure.message)}]>>
    /\ last' = [op |-> "event"]
    /\ UNCHANGED <<cacheVars, buildVars, connVars>>

\* the caller aborts the signal it passed: the 'abort' listener, if one was
\* added, rejects the race; the engine call goes on
AbortRaised ==
    /\ tasks # <<>>
    /\ tasks[1].signal = "idle"
    /\ tasks' =
           <<[tasks[1] EXCEPT
                 !.signal = "raised",
                 !.pc = IF @ = "engine" /\ tasks[1].listening THEN "rejected" ELSE @,
                 !.error = IF tasks[1].pc = "engine" /\ tasks[1].listening
                           THEN {RawError(<<"E", "v", "a", "l", "u", "a", "t", "e", " ", "a", "b", "o", "r", "t", "e", "d">>)} ELSE @]>>
    /\ last' = [op |-> "event"]
    /\ UNCHANGED <<cacheVars, buildVars, connVars>>

\* a snapshot of the page stored the table of two buttons
ActionSnapshotStored ==
    /\ NoCallInFlight
    /\ storeRoleRefsForTarget(ACTION_PAGE, URL_H, {TARGET_A}, TABLE_DUP, {}, {"role"})

RefActionCalled ==
    \E kind \in RefKinds, ref \in ActionRefs, timeoutMs \in RequestedTimeouts :
        ActionCall(kind, {ref}, IF kind = "drag" THEN {REF_E2} ELSE {}, timeoutMs, "none")

WaitCalled ==
    \E kind \in WaitKinds, timeoutMs \in RequestedTimeouts :
        ActionCall(kind, {}, {}, timeoutMs, "none")

EvaluateCalled ==
    \E refOpt \in {{}} \cup {{r} : r \in ActionRefs}, signal \in {"none", "idle", "raised"} :
        ActionCall("evaluate", refOpt, {}, {}, signal)

EngineRejected == \E failure \in EngineFailures : EngineRejects(failure)

NextAction ==
    \/ ActionSnapshotStored
    \/ RefActionCalled
    \/ WaitCalled
    \/ EvaluateCalled
    \/ RefActionFindsPage
    \/ WaitFindsPage
    \/ EvaluateFindsPage
    \/ EngineResolves
    \/ EngineRejected
    \/ AbortRaised

\* one action call at a time on a page, from its call to its settlement
SpecAction == InitEmpty /\ [][NextAction]_vars

\* the ref action that was just rejected by a failure of its engine call
FailedRefAction ==
    /\ tasks # <<>>
    /\ tasks[1].kind \in RefKinds
    /\ tasks[1].pc = "rejected"
    /\ tasks[1].failure # {}

\* C22 (as stated): every failure of the engine call of a ref-addressed action
\* reaches the caller as one of the three classified errors, never as the error
\* the engine threw
C22_EveryFailureClassified ==
    FailedRefAction =>
        \A e \in tasks[1].error : e.class \in {"ambiguous", "notFound", "notInteractable"}

\* C22: a failure of the engine call of a ref-addressed action reaches the caller
\* classified in priority order: a strict-mode violation as an ambiguous match
\* that reports the match count (or "multiple"), else a timeout on visibility as
\* not found or not visible, else an intercepted or invisible element as not
\* interactable; any other failure reaches the caller as the engine's own error
C22_FailuresClassifiedInOrder ==
    FailedRefAction =>
        \A f \in tasks[1].failure :
            tasks[1].error =
                { IF "strict" \in f.what
                  THEN [class |-> "ambiguous", selector |-> SelectorOf(tasks[1]),
                        count |-> IF f.count = {} THEN <<"m", "u", "l", "t", "i", "p", "l", "e">>
                                  ELSE CHOOSE c \in f.count : TRUE,
                        message |-> <<>>]
                  ELSE IF {"timeout", "visibility"} \subseteq f.what
                  THEN [class |-> "notFound", selector |-> SelectorOf(tasks[1]),
                        count |-> <<>>, message |-> <<>>]
                  ELSE IF f.what \cap {"intercepted", "visibility"} # {}
                  THEN [class |-> "notInteractable", selector |-> SelectorOf(tasks[1]),
                        count |-> <<>>, message |-> <<>>]
                  ELSE [class |-> "raw", selector |-> <<>>, count |-> <<>>,
                        message |-> f.message] }

\* a hover failed on a strict-mode violation whose message also mentions an
\* invisible element, and the caller was told of 12 matches for its ref
C22_Witness ==
    /\ FailedRefAction
    /\ tasks[1].kind = "hover"
    /\ \E f \in tasks[1].failure :
          /\ f.what = {"strict"}
          /\ Includes(f.message, <<"n", "o", "t", " ", "v", "i", "s", "i", "b", "l", "e">>)
    /\ \E e \in tasks[1].error :
          /\ e.class = "ambiguous"
          /\ e.count = <<"1", "2">>
          /\ e.selector = <<"@">> \o REF_E2

\* the call whose timeout was just computed
TimedCalls ==
    {i \in 1..Len(tasks) :
        tasks[i].kind \in RefKinds \cup WaitKinds /\ tasks[i].timeout # {}}

\* C24: the timeout an action passes to the engine lies in [500, maxMs] for every
\* requested value (maxMs 60000 for click, type, hover, select, drag and fill,
\* 120000 for waits and navigation), equals a requested value that lies in the
\* range, and is the default (8000, or 20000 for waits and navigation) when no
\* value is requested
C24_TimeoutClamped ==
    \A i \in TimedCalls :
        LET interactive == tasks[i].kind \in RefKinds
            maxMs == IF interactive THEN 60000 ELSE 120000
            default == IF interactive THEN 8000 ELSE 20000
        IN \A t \in tasks[i].timeout :
              /\ ~t.nan
              /\ t.value \in 500..maxMs
              /\ tasks[i].timeoutMs = {} => t.value = default
              /\ \A r \in tasks[i].timeoutMs :
                    (~r.nan /\ r.value \in 500..maxMs) => t.value = r.value

\* the same for the requested values that are not NaN
TimeoutClampedUnlessNaN ==
    \A i \in TimedCalls :
        tasks[i].timeoutMs # {NaN} => C24_TimeoutClamped

\* the signal of the evaluate call in flight is raised in this step, while the
\* call waits for its engine call
AbortDuringEvaluate ==
    /\ tasks # <<>>
    /\ tasks[1].kind = "evaluate"
    /\ tasks[1].pc = "engine"
    /\ tasks[1].signal = "idle"
    /\ tasks' # <<>>
    /\ tasks'[1].signal = "raised"

\* C23: an evaluate call that was given a cancellation signal rejects once the
\* signal is raised, with or without a ref, while its engine call is still
\* running; the engine call is not aborted
C23_AbortRejectsEvaluate ==
    [][AbortDuringEvaluate =>
           /\ tasks'[1].pc = "rejected"
           /\ tasks'[1].engine = "running"]_vars

----------------------------------------------------------------------------
(* Claims about the numbering and the depth limit of the builders          *)

\* the lines of a text that carry a ref marker, in order
RefLines(text) == SelectSeq(Split(text), HasRef)

\* the role-mode snapshot that was just built
RoleSnapshotBuilt == last.op = "snapshot" /\ last.mode = "role"

\* C25: a role-mode build that makes n lines addressable produces exactly the
\* refs e1..en, given in document order, and the i-th ref-carrying line of the
\* output carries ei: a line removed by maxDepth or by compaction consumes no
\* identifier
C25_RefsNumberedInDocumentOrder ==
    RoleSnapshotBuilt =>
        LET refs == Built.refs
            n == Cardinality(DOMAIN refs)
            e(i) == <<"e">> \o ToDecimal(i)
            lines == RefLines(Built.snapshot)
        IN /\ DOMAIN refs = {e(i) : i \in 1..n}
           /\ \A i \in 1..(n - 1) : lineOf[e(i)] < lineOf[e(i + 1)]
           /\ Len(lines) = n
           /\ \A i \in 1..n :
                 Includes(lines[i], <<"[", "r", "e", "f", "=">> \o e(i) \o <<"]">>)

\* C25 witness: a full-tree role snapshot with maxDepth 0 of a page whose second
\* node is a nested button between two top-level nodes that receive refs: the
\* nested button is cut, and the third line is e2
C25_Witness ==
    /\ RoleSnapshotBuilt
    /\ options.maxDepth = {0}
    /\ ~options.interactive
    /\ Len(dom) = 3
    /\ dom[2].depth = 1
    /\ \E el \in dom[2].kind.elem : el.role = ROLE_BUTTON
    /\ DOMAIN Built.refs = {REF_E1, REF_E2}
    /\ lineOf[REF_E2] = 3
    /\ Len(RefLines(Built.snapshot)) = 2

\* the kinds of node of the pages of the full-tree snapshots: a named and an
\* unnamed node of an interactive role, a named (with an attribute) and an
\* unnamed node of a content role, an unnamed structural node and a named node of
\* a role of none of the three sets
FullTreeKinds ==
    { [elem |-> {[role |-> ROLE_BUTTON, name |-> {<<"S">>}]},
       aria |-> <<"-", " ", "b", "u", "t", "t", "o", "n", " ", "\"", "S", "\"">>, ai |-> <<"-", " ", "b", "u", "t", "t", "o", "n", " ", "\"", "S", "\"", " ", "[", "r", "e", "f", "=", "e", "#", "]">>],
      [elem |-> {[role |-> <<"t", "e", "x", "t", "b", "o", "x">>, name |-> {}]},
       aria |-> <<"-", " ", "t", "e", "x", "t", "b", "o", "x">>, ai |-> <<"-", " ", "t", "e", "x", "t", "b", "o", "x", " ", "[", "r", "e", "f", "=", "e", "#", "]">>],
      [elem |-> {[role |-> <<"h", "e", "a", "d", "i", "n", "g">>, name |-> {<<"T">>}]},
       aria |-> <<"-", " ", "h", "e", "a", "d", "i", "n", "g", " ", "\"", "T", "\"", " ", "[", "l", "e", "v", "e", "l", "=", "1", "]">>, ai |-> <<"-", " ", "h", "e", "a", "d", "i", "n", "g", " ", "\"", "T", "\"", " ", "[", "l", "e", "v", "e", "l", "=", "1", "]", " ", "[", "r", "e", "f", "=", "e", "#", "]">>],
      [elem |-> {[role |-> <<"l", "i", "s", "t", "i", "t", "e", "m">>, name |-> {}]},
       aria |-> <<"-", " ", "l", "i", "s", "t", "i", "t", "e", "m">>, ai |-> <<"-", " ", "l", "i", "s", "t", "i", "t", "e", "m", " ", "[", "r", "e", "f", "=", "e", "#", "]">>],
      [elem |-> {[role |-> <<"l", "i", "s", "t">>, name |-> {}]},
       aria |-> <<"-", " ", "l", "i", "s", "t", ":">>, ai |-> <<"-", " ", "l", "i", "s", "t", " ", "[", "r", "e", "f", "=", "e", "#", "]", ":">>],
      [elem |-> {[role |-> <<"i", "m", "g">>, name |-> {<<"L", "o", "g", "o">>}]},
       aria |-> <<"-", " ", "i", "m", "g", " ", "\"", "L", "o", "g", "o", "\"">>, ai |-> <<"-", " ", "i", "m", "g", " ", "\"", "L", "o", "g", "o", "\"", " ", "[", "r", "e", "f", "=", "e", "#", "]">>] }

InitFullTree ==
    /\ CacheIdle
    /\ ConnIdle
    /\ last = [op |-> "init"]
    /\ \E d \in DepthShapes : \E k \in [1..Len(d) -> FullTreeKinds] : dom = Dom(d, k)
    /\ input = <<>>
    /\ options = [interactive |-> FALSE, compact |-> FALSE, maxDepth |-> {}]
    /\ built = {}
    /\ lineOf = <<>>
    /\ tree = <<>>

\* the options of a full-tree snapshot
FullTreeOptions == {o \in BuildOptions : ~o.interactive}

SnapshotRoleFullTree == \E opts \in FullTreeOptions : snapshotRole(opts)

NextFullTree == SnapshotRoleFullTree

\* one full-tree role snapshot of a page
SpecFullTree == InitFullTree /\ [][NextFullTree]_vars

\* the node of input line i is of an interactive role, or of a content role and
\* has a non-empty name
Addressable(i) ==
    \E el \in dom[i].kind.elem :
        \/ el.role \in {ROLE_BUTTON, <<"t", "e", "x", "t", "b", "o", "x">>}
        \/ el.role \in {<<"h", "e", "a", "d", "i", "n", "g">>, <<"l", "i", "s", "t", "i", "t", "e", "m">>} /\ el.name \notin {{}, {<<>>}}

\* the input lines at or above the depth limit
WithinMaxDepth(i) == options.maxDepth = {} \/ dom[i].depth <= (CHOOSE d \in options.maxDepth : TRUE)

\* the elements of a sequence of lines at the indices of a set, in order
RECURSIVE LinesAt(_, _, _)
LinesAt(lines, indices, i) ==
    IF i > Len(lines) THEN <<>>
    ELSE (IF i \in indices THEN <<lines[i]>> ELSE <<>>) \o LinesAt(lines, indices, i + 1)

\* C26: in a full-tree role-mode build, a well-formed line within maxDepth
\* receives a ref iff its role is interactive, or its role is content and it has
\* a non-empty name; every other retained line is emitted unmodified (all of
\* them, in order, when the tree is not compacted)
C26_FullTreeRefRule ==
    (RoleSnapshotBuilt /\ ~options.interactive) =>
        LET lines == Split(input)
            within == {i \in 1..Len(lines) : WithinMaxDepth(i)}
            withRef == {lineOf[r] : r \in DOMAIN lineOf}
            plain == LinesAt(lines, within \ withRef, 1)
            emitted == IF Built.snapshot \in {<<>>, <<"(", "e", "m", "p", "t", "y", ")">>} THEN <<>>
                       ELSE SelectSeq(Split(Built.snapshot), LAMBDA l : ~HasRef(l))
        IN /\ withRef = {i \in within : Addressable(i)}
           /\ IF options.compact
              THEN \A j \in 1..Len(emitted) : \E i \in 1..Len(plain) : emitted[j] = plain[i]
              ELSE emitted = plain

\* C26 witness: a full tree, not compacted, of an unnamed list item, a named
\* heading and a named image: only the heading has a ref and the two other lines
\* are emitted as the engine printed them
C26_Witness ==
    /\ RoleSnapshotBuilt
    /\ options = [interactive |-> FALSE, compact |-> FALSE, maxDepth |-> {}]
    /\ input = <<"-", " ", "l", "i", "s", "t", "i", "t", "e", "m", "\n", "-", " ", "h", "e", "a", "d", "i", "n", "g", " ", "\"", "T", "\"", " ", "[", "l", "e", "v", "e", "l", "=", "1", "]", "\n", "-", " ", "i", "m", "g", " ", "\"", "L", "o", "g", "o", "\"">>
    /\ Built.snapshot = <<"-", " ", "l", "i", "s", "t", "i", "t", "e", "m", "\n", "-", " ", "h", "e", "a", "d", "i", "n", "g", " ", "\"", "T", "\"", " ", "[", "r", "e", "f", "=", "e", "1", "]", " ", "[", "l", "e", "v", "e", "l", "=", "1", "]", "\n", "-", " ", "i", "m", "g", " ", "\"", "L", "o", "g", "o", "\"">>
    /\ DOMAIN Built.refs = {REF_E1}

\* the kinds of node of the pages whose snapshots are limited in depth: a button
\* (two of them make duplicates), a heading, an unnamed list and a paragraph,
\* which the engine prints without a ref
DepthKinds ==
    { [elem |-> {[role |-> ROLE_BUTTON, name |-> {<<"S">>}]},
       aria |-> <<"-", " ", "b", "u", "t", "t", "o", "n", " ", "\"", "S", "\"">>, ai |-> <<"-", " ", "b", "u", "t", "t", "o", "n", " ", "\"", "S", "\"", " ", "[", "r", "e", "f", "=", "e", "#", "]">>],
      [elem |-> {[role |-> <<"h", "e", "a", "d", "i", "n", "g">>, name |-> {<<"T">>}]},
       aria |-> <<"-", " ", "h", "e", "a", "d", "i", "n", "g", " ", "\"", "T", "\"", " ", "[", "l", "e", "v", "e", "l", "=", "1", "]">>, ai |-> <<"-", " ", "h", "e", "a", "d", "i", "n", "g", " ", "\"", "T", "\"", " ", "[", "l", "e", "v", "e", "l", "=", "1", "]", " ", "[", "r", "e", "f", "=", "e", "#", "]">>],
      [elem |-> {[role |-> <<"l", "i", "s", "t">>, name |-> {}]},
       aria |-> <<"-", " ", "l", "i", "s", "t", ":">>, ai |-> <<"-", " ", "l", "i", "s", "t", ":">>],
      [elem |-> {[role |-> <<"p", "a", "r", "a", "g", "r", "a", "p", "h">>, name |-> {}]},
       aria |-> <<"-", " ", "p", "a", "r", "a", "g", "r", "a", "p", "h", ":">>, ai |-> <<"-", " ", "p", "a", "r", "a", "g", "r", "a", "p", "h", ":">>] }

InitDepth ==
    /\ CacheIdle
    /\ ConnIdle
    /\ last = [op |-> "init"]
    /\ \E d \in DepthShapes : \E k \in [1..Len(d) -> DepthKinds] : dom = Dom(d, k)
    /\ input = <<>>
    /\ options = [interactive |-> FALSE, compact |-> FALSE, maxDepth |-> {}]
    /\ built = {}
    /\ lineOf = <<>>
    /\ tree = <<>>

\* the options of a snapshot with maxDepth set: 0 (only the top-level nodes) or 1
DepthOptions ==
    {o \in [interactive : BOOLEAN, compact : BOOLEAN, maxDepth : {{0}, {1}}] :
        o.interactive => ~o.compact}

SnapshotRoleLimited == \E opts \in DepthOptions : snapshotRole(opts)

SnapshotAiLimited == \E opts \in DepthOptions : snapshotAi(opts)

NextDepth == SnapshotRoleLimited \/ SnapshotAiLimited

\* one snapshot with maxDepth set of a page
SpecDepth == InitDepth /\ [][NextDepth]_vars

\* a line without its markers " [ref=..]" and " [nth=..]"
RECURSIVE StripMarkers(_, _)
StripMarkers(line, i) ==
    IF i > Len(line) THEN <<>>
    ELSE IF /\ Slice(line, i, i + 5) \in {<<" ", "[", "r", "e", "f", "=">>, <<" ", "[", "n", "t", "h", "=">>}
            /\ i + 6 + RunNot(line, i + 6, "]") <= Len(line)
         THEN StripMarkers(line, i + 7 + RunNot(line, i + 6, "]"))
         ELSE <<line[i]>> \o StripMarkers(line, i + 1)

\* the lines of a snapshot; the text of an empty result is no line
OutputLines(text) ==
    IF text \in {<<>>, <<"(", "e", "m", "p", "t", "y", ")">>, NO_INTERACTIVE} THEN <<>> ELSE Split(text)

\* the lines of a snapshot at or above the depth limit, in role mode without the
\* markers whose numbers depend on the lines before
Comparable(text, limit) ==
    LET lines == SelectSeq(OutputLines(text), LAMBDA l : getIndentLevel(l) <= limit)
    IN [i \in 1..Len(lines) |->
           IF last.mode = "role" THEN StripMarkers(lines[i], 1) ELSE lines[i]]

\* the table entries of a build for the lines at or above the depth limit
EntriesWithin(b, limit) ==
    {<<b.lineOf[r], b.refs[r].role, b.refs[r].name>> :
        r \in {q \in DOMAIN b.refs : dom[b.lineOf[q]].depth <= limit}}

\* the build of the input of the last snapshot with the same options but no
\* maxDepth
Unlimited ==
    IF last.mode = "role"
    THEN buildRoleSnapshotFromAriaSnapshot(input, [options EXCEPT !.maxDepth = {}])
    ELSE buildRoleSnapshotFromAiSnapshot(input, [options EXCEPT !.maxDepth = {}])

\* a snapshot with maxDepth set was just built
DepthLimited == last.op = "snapshot" /\ options.maxDepth # {}

\* no line deeper than maxDepth is in the output or owns a table entry
NothingBelowLimit ==
    LET limit == CHOOSE d \in options.maxDepth : TRUE
        out == OutputLines(Built.snapshot)
    IN /\ \A i \in 1..Len(out) : getIndentLevel(out[i]) <= limit
       /\ \A r \in DOMAIN Built.refs : dom[lineOf[r]].depth <= limit

\* C27 as stated: with maxDepth set, in both parsing modes and both addressing
\* modes, no line deeper than maxDepth is in the output or owns a table entry, and
\* the lines at or above it are emitted and entered in the table as they are
\* without the limit, ref numbers and nth apart
C27_LimitOnlyCuts ==
    DepthLimited =>
        LET limit == CHOOSE d \in options.maxDepth : TRUE
        IN With(Unlimited, LAMBDA u :
              /\ NothingBelowLimit
              /\ Comparable(Built.snapshot, limit) = Comparable(u.snapshot, limit)
              /\ EntriesWithin([refs |-> Built.refs, lineOf |-> lineOf], limit)
                     = EntriesWithin(u, limit))

\* C27, amended: the same, but in a compacted tree the lines at or above maxDepth
\* are only some of those of the tree without the limit: compaction runs on the
\* cut tree and drops a ref-less line whose ref-carrying descendants were cut
C27_LimitCutsBeforeCompaction ==
    DepthLimited =>
        LET limit == CHOOSE d \in options.maxDepth : TRUE
        IN With(Unlimited, LAMBDA u :
           With(Comparable(Built.snapshot, limit), LAMBDA lim :
           With(Comparable(u.snapshot, limit), LAMBDA unl :
              /\ NothingBelowLimit
              /\ IF options.compact
                 THEN \A i \in 1..Len(lim) : \E j \in 1..Len(unl) : lim[i] = unl[j]
                 ELSE lim = unl
              /\ EntriesWithin([refs |-> Built.refs, lineOf |-> lineOf], limit)
                     = EntriesWithin(u, limit))))

\* C27 witness: a compacted role snapshot with maxDepth 0 of a paragraph that
\* holds a button, followed by a button: the nested button is cut and owns no
\* entry, the paragraph is dropped, the button of the third line is e1
C27_Witness ==
    /\ DepthLimited
    /\ last.mode = "role"
    /\ options.compact
    /\ input = <<"-", " ", "p", "a", "r", "a", "g", "r", "a", "p", "h", ":", "\n", " ", " ", "-", " ", "b", "u", "t", "t", "o", "n", " ", "\"", "S", "\"", "\n", "-", " ", "b", "u", "t", "t", "o", "n", " ", "\"", "S", "\"">>
    /\ Built.snapshot = <<"-", " ", "b", "u", "t", "t", "o", "n", " ", "\"", "S", "\"", " ", "[", "r", "e", "f", "=", "e", "1", "]">>
    /\ DOMAIN Built.refs = {REF_E1}
    /\ lineOf[REF_E1] = 3

\* lines of the engine that the builders' pattern does not match: a property of
\* a node, and a node whose key the engine quotes
MalformedLines == {<<"-", " ", "/", "u", "r", "l", ":", " ", "x">>, <<"-", " ", "'", "l", "i", "n", "k", " ", "\"", "a", ":", " ", "b", "\"", "'", ":">>}

\* the kinds of node of the pages with malformed lines: a button (two of them
\* make duplicates), a heading, a paragraph, and the two malformed lines
MalformedKinds ==
    { [elem |-> {[role |-> ROLE_BUTTON, name |-> {<<"S">>}]},
       aria |-> <<"-", " ", "b", "u", "t", "t", "o", "n", " ", "\"", "S", "\"">>, ai |-> <<"-", " ", "b", "u", "t", "t", "o", "n", " ", "\"", "S", "\"", " ", "[", "r", "e", "f", "=", "e", "#", "]">>],
      [elem |-> {[role |-> <<"h", "e", "a", "d", "i", "n", "g">>, name |-> {<<"T">>}]},
       aria |-> <<"-", " ", "h", "e", "a", "d", "i", "n", "g", " ", "\"", "T", "\"", " ", "[", "l", "e", "v", "e", "l", "=", "1", "]">>, ai |-> <<"-", " ", "h", "e", "a", "d", "i", "n", "g", " ", "\"", "T", "\"", " ", "[", "l", "e", "v", "e", "l", "=", "1", "]", " ", "[", "r", "e", "f", "=", "e", "#", "]">>],
      [elem |-> {[role |-> <<"p", "a", "r", "a", "g", "r", "a", "p", "h">>, name |-> {}]},
       aria |-> <<"-", " ", "p", "a", "r", "a", "g", "r", "a", "p", "h", ":">>, ai |-> <<"-", " ", "p", "a", "r", "a", "g", "r", "a", "p", "h", ":">>],
      [elem |-> {}, aria |-> <<"-", " ", "/", "u", "r", "l", ":", " ", "x">>, ai |-> <<"-", " ", "/", "u", "r", "l", ":", " ", "x">>],
      [elem |-> {[role |-> ROLE_LINK, name |-> {<<"a", ":", " ", "b">>}]},
       aria |-> <<"-", " ", "'", "l", "i", "n", "k", " ", "\"", "a", ":", " ", "b", "\"", "'", ":">>, ai |-> <<"-", " ", "'", "l", "i", "n", "k", " ", "\"", "a", ":", " ", "b", "\"", " ", "[", "r", "e", "f", "=", "e", "#", "]", "'", ":">>] }

InitMalformed ==
    /\ CacheIdle
    /\ ConnIdle
    /\ last = [op |-> "init"]
    /\ \E d \in DepthShapes : \E k \in [1..Len(d) -> MalformedKinds] : dom = Dom(d, k)
    /\ input = <<>>
    /\ options = [interactive |-> FALSE, compact |-> FALSE, maxDepth |-> {}]
    /\ built = {}
    /\ lineOf = <<>>
    /\ tree = <<>>

\* one role snapshot of a page with malformed lines
SpecMalformed == InitMalformed /\ [][SnapshotRole]_vars

\* the input lines that are malformed
MalformedAt == {i \in 1..Len(dom) : dom[i].kind.aria \in MalformedLines}

\* the build, with the options of the last snapshot, of its input without the
\* malformed lines
WithoutMalformed ==
    buildRoleSnapshotFromAriaSnapshot(
        AriaSnapshotText(SelectSeq(dom, LAMBDA n : n.kind.aria \notin MalformedLines)),
        options)

\* C28: a malformed line does not abort a role-mode build and receives no ref,
\* and the well-formed lines receive the refs and the nth they receive when the
\* malformed lines are absent
C28_MalformedLinesIgnored ==
    RoleSnapshotBuilt =>
        With(WithoutMalformed, LAMBDA w :
            /\ built # {}
            /\ \A r \in DOMAIN lineOf : lineOf[r] \notin MalformedAt
            /\ Built.refs = w.refs
            /\ RefLines(Built.snapshot) = RefLines(w.snapshot))

\* C28 witness: a full tree of a button, a property line and a second button of
\* the same name: the buttons are e1 and e2 with nth 0 and 1, and the property
\* line is emitted as it came
C28_Witness ==
    /\ RoleSnapshotBuilt
    /\ options = [interactive |-> FALSE, compact |-> FALSE, maxDepth |-> {}]
    /\ input = <<"-", " ", "b", "u", "t", "t", "o", "n", " ", "\"", "S", "\"", "\n", " ", " ", "-", " ", "/", "u", "r", "l", ":", " ", "x", "\n", "-", " ", "b", "u", "t", "t", "o", "n", " ", "\"", "S", "\"">>
    /\ Built.snapshot = <<"-", " ", "b", "u", "t", "t", "o", "n", " ", "\"", "S", "\"", " ", "[", "r", "e", "f", "=", "e", "1", "]", "\n", " ", " ", "-", " ", "/", "u", "r", "l", ":", " ", "x", "\n", "-", " ", "b", "u", "t", "t", "o", "n", " ", "\"", "S", "\"", " ", "[", "r", "e", "f", "=", "e", "2", "]", " ", "[", "n", "t", "h", "=", "1", "]">>
    /\ DOMAIN Built.refs = {REF_E1, REF_E2}
    /\ Built.refs[REF_E1].nth = {0}
    /\ Built.refs[REF_E2].nth = {1}

----------------------------------------------------------------------------
(* Claims about restore and about the purge of a dropped connection        *)

\* (page, cdpUrl, targetId?) as the callers of restore pass them: those of
\* TargetInputs, and p2 as the page object the engine hands out for target A of
\* the browser at "h" after its connection was made anew
RestoreInputs == TargetInputs \cup {<<"p2", URL_H, {TARGET_A}>>}

RestorePage ==
    \E t \in RestoreInputs : restoreRoleRefsForTarget(t[1], t[2], t[3])

NextRestore == Store \/ RestorePage

\* stores, and restores into pages with and without a live table
SpecRestore == InitEmpty /\ [][NextRestore]_vars

\* C29: restore leaves the cache as it is and changes the session of no page but
\* the given one; when that page has no live table and the cache has an entry
\* under the key, the table, the scope and the mode of the page become exactly
\* the three values of the entry
C29_RestoreCopiesEntry ==
    [][last'.op = "restore" =>
          /\ roleRefsByTarget' = roleRefsByTarget
          /\ \A p \in Pages \ {last'.page} : pageStates'[p] = pageStates[p]
          /\ \A k \in last'.key : \A e \in CacheGet(roleRefsByTarget, k) :
                Session(pageStates, last'.page).roleRefs = {} =>
                    pageStates'[last'.page] =
                        {[roleRefs |-> {e.refs}, roleRefsFrameSelector |-> e.frameSelector,
                          roleRefsMode |-> e.mode]}]_vars

\* C29 witness: restore ran under the key h::A for the page p2, which had no
\* state, and gave it the table of one link, the frame selector and the mode of
\* the entry; the page p1, which stored that entry and then another table without
\* a key, kept its own
C29_Witness ==
    /\ last = [op |-> "restore", page |-> "p2", key |-> {KEY_H_A}]
    /\ \E e \in CacheGet(roleRefsByTarget, KEY_H_A) :
          /\ e.frameSelector = {FRAME}
          /\ pageStates["p2"] =
                 {[roleRefs |-> {TABLE_LINK}, roleRefsFrameSelector |-> {FRAME},
                   roleRefsMode |-> {"role"}]}
    /\ Session(pageStates, "p1").roleRefs = {TABLE_DUP}

\* a connectWithRetry run that connected at its first attempt and whose browser
\* is still connected
ConnectedRun(normalized, r) ==
    [NewRun(normalized) EXCEPT !.phase = "resolved",
                               !.timeouts = <<AttemptTimeout(0)>>,
                               !.result = {[ok |-> TRUE, value |-> r]},
                               !.open = TRUE]

\* the state after connectBrowser("h") and then connectBrowser("hx") resolved:
\* both browsers are connected and `cached` holds the connection to "hx"
InitSuperseded ==
    /\ last = [op |-> "init"]
    /\ BuildIdle
    /\ CacheIdle
    /\ cached = {[browser |-> 2, cdpUrl |-> URL_HX]}
    /\ connectingByUrl = <<>>
    /\ runs = <<ConnectedRun(URL_H, 1), ConnectedRun(URL_HX, 2)>>
    /\ callers = [c \in Callers |-> [pc |-> "idle"]]
    /\ tasks = <<>>

\* a caller connects to "h" again
Reconnect == connectBrowser(1, URL_H)

\* a snapshot of a page reached through the cached connection to "h" stores its
\* table under h::A
StoredThroughCached ==
    /\ \E conn \in cached : conn.cdpUrl = URL_H
    /\ storeRoleRefsForTarget("p1", URL_H, {TARGET_A}, TABLE_DUP, {}, {"role"})

NextSupersede ==
    \/ Reconnect
    \/ WebSocketUrl
    \/ Connected
    \/ AttemptFailed
    \/ Backoff
    \/ Resumed
    \/ BrowserGone
    \/ StoredThroughCached

\* a second connection to an endpoint whose first connection is still open, the
\* snapshots stored through it, and the disconnects in any order
SpecSupersede == InitSuperseded /\ [][NextSupersede]_vars

\* in this step the browser of run r drops while a newer connection to the same
\* endpoint is open
LateDisconnect(r) ==
    /\ r \in 1..Len(runs)
    /\ runs[r].open
    /\ ~runs'[r].open
    /\ \E n \in (r + 1)..Len(runs) : runs[n].cdpUrl = runs[r].cdpUrl /\ runs[n].open

\* C30: when an earlier connection to an endpoint was superseded by a newer one,
\* the late disconnect of the earlier one removes no cache entry stored through
\* the newer, still-live connection
C30_LateDisconnectKeepsEntries ==
    [][\A r \in 1..Len(runs) : LateDisconnect(r) => roleRefsByTarget' = roleRefsByTarget]_vars

----------------------------------------------------------------------------
(* connectBrowser and disconnectBrowser: the life of the connections       *)

\* bound: the number of disconnectBrowser calls
MaxDisconnects == 1

\* the endpoints callers ask for; URL_H_SLASH normalizes to "h"
LifecycleUrls == {URL_H_SLASH, URL_F}

\* the runs of connectingByUrl; a Map iterates in insertion order, which is the
\* order in which the runs were started
Connecting == {connectingByUrl[u] : u \in DOMAIN connectingByUrl}

FirstConnecting == CHOOSE r \in Connecting : \A q \in Connecting : r <= q

\* the callers whose connectBrowser call is running, and those that have called
Awaiting == {c \in Callers : callers[c].pc = "awaiting"}

Called == {c \in Callers : callers[c].pc # "idle"}

\* disconnectBrowser after its loop: `const cur = cached; cached = null`, then
\* `await cur.browser.close()` or, with nothing cached, its return
CloseCached(ts, i) ==
    /\ cached' = {}
    /\ tasks' = [ts EXCEPT ![i].pc = IF cached = {} THEN "resolved" ELSE "closing",
                           ![i].cur = {conn.browser : conn \in cached}]

\* disconnectBrowser up to its first await: the first promise of
\* connectingByUrl, or with none in flight the close of the cached connection.
\* The call remembers whether a connectBrowser call was running when it was
\* made and how many had been made
disconnectBrowser ==
    LET i == Len(tasks) + 1
        call == [kind |-> "disconnectBrowser", pc |-> "draining", run |-> 0, cur |-> {},
                 connecting |-> Awaiting # {}, called |-> Cardinality(Called)]
    IN /\ Len(tasks) < MaxDisconnects
       /\ IF Connecting # {}
          THEN /\ tasks' = Append(tasks, [call EXCEPT !.run = FirstConnecting])
               /\ UNCHANGED cached
          ELSE CloseCached(Append(tasks, call), i)
       /\ last' = [op |-> "disconnectBrowser", call |-> i]
       /\ UNCHANGED <<connectingByUrl, runs, callers, cacheVars, buildVars>>

\* `try { await p; } catch {}` resumes when the awaited run has settled, either
\* way: the loop goes on to the next promise of connectingByUrl, the runs
\* started meanwhile included, and after the last one to the close
DrainResumes(i) ==
    /\ i \in 1..Len(tasks)
    /\ tasks[i].pc = "draining"
    /\ ~InFlight(runs[tasks[i].run])
    /\ IF Connecting # {}
       THEN /\ tasks' = [tasks EXCEPT ![i].run = FirstConnecting]
            /\ UNCHANGED cached
       ELSE CloseCached(tasks, i)
    /\ last' = [op |-> "disconnectBrowser", call |-> i]
    /\ UNCHANGED <<connectingByUrl, runs, callers, cacheVars, buildVars>>

\* cur.browser.close() settles: a browser that was still connected has emitted
\* 'disconnected', whose handler ran, and disconnectBrowser returns
CloseSettles(i) ==
    /\ i \in 1..Len(tasks)
    /\ tasks[i].pc = "closing"
    /\ LET b == CHOOSE b \in tasks[i].cur : TRUE
       IN IF runs[b].open
          THEN /\ runs' = [runs EXCEPT ![b].open = FALSE]
               /\ cached' = {conn \in cached : conn.browser # b}
               /\ roleRefsByTarget' = PurgeDisconnected(roleRefsByTarget, runs[b].cdpUrl)
          ELSE UNCHANGED <<runs, cached, roleRefsByTarget>>
    /\ tasks' = [tasks EXCEPT ![i].pc = "resolved"]
    /\ last' = [op |-> "disconnectBrowser", call |-> i]
    /\ UNCHANGED <<connectingByUrl, callers, pageStates, buildVars>>

ConnectTo == \E c \in Callers, cdpUrl \in LifecycleUrls : connectBrowser(c, cdpUrl)

\* connectOverCDP rejects; which error it rejects with makes no difference to
\* the life of the connections
Refused == \E r \in 1..Len(runs) : CdpFails(r, "ECONNREFUSED")

DisconnectCalled == disconnectBrowser

Drained == \E i \in 1..Len(tasks) : DrainResumes(i)

Closed == \E i \in 1..Len(tasks) : CloseSettles(i)

NextLifecycle ==
    \/ ConnectTo
    \/ WebSocketUrl
    \/ Connected
    \/ Refused
    \/ Backoff
    \/ Resumed
    \/ BrowserGone
    \/ DisconnectCalled
    \/ Drained
    \/ Closed

\* callers connect and disconnect in any interleaving with the attempts and with
\* the disconnects of the browsers
SpecLifecycle == InitConnect /\ [][NextLifecycle]_vars

----------------------------------------------------------------------------
(* Claims about the life of the connections                                *)

\* the connections of an endpoint that are open
OpenTo(u) == {r \in 1..Len(runs) : runs[r].cdpUrl = u /\ runs[r].open}

\* the callers that call connectBrowser in this step
CallingNow == {c \in Callers : callers[c].pc = "idle" /\ callers'[c].pc # "idle"}

\* C31: the cached slot never holds a connection that has signalled disconnect:
\* the disconnect of the cached connection clears the slot, so that a
\* connectBrowser for an endpoint none of whose connections is open returns no
\* old connection and, with no attempt in flight, starts a fresh one; and the
\* disconnect of any other connection leaves the slot as it is.
C31_CachedNeverDisconnected ==
    [][/\ \A conn \in cached' :
              /\ runs'[conn.browser].open
              /\ runs'[conn.browser].cdpUrl = conn.cdpUrl
       /\ \A r \in 1..Len(runs) :
              (runs[r].open /\ ~runs'[r].open)
              => cached' = IF \E conn \in cached : conn.browser = r THEN {} ELSE cached
       /\ \A c \in CallingNow :
              LET u == callers'[c].cdpUrl
              IN /\ callers'[c].pc = "done"
                    => /\ callers'[c].result.ok
                       /\ callers'[c].result.value \in OpenTo(u)
                 /\ (OpenTo(u) = {} /\ u \notin DOMAIN connectingByUrl)
                    => /\ Len(runs') = Len(runs) + 1
                       /\ runs'[Len(runs')] = NewRun(u)
                       /\ callers'[c].run = Len(runs')]_vars

\* C31 witness: the connection to an endpoint was cached and then dropped, which
\* cleared the slot, and the next connectBrowser for that endpoint has started
\* a fresh attempt.
C31_Witness ==
    /\ last.op = "connectBrowser"
    /\ last.started
    /\ Len(runs) = 2
    /\ runs[1].cdpUrl = last.cdpUrl
    /\ runs[1].phase = "resolved"
    /\ ~runs[1].open
    /\ runs[2] = NewRun(last.cdpUrl)
    /\ cached = {}
    /\ tasks = <<>>

\* C32: connectingByUrl holds exactly the runs in flight, each under its own
\* endpoint, so at most one per endpoint and none that has settled; a caller
\* never awaits a run that had settled when it called, so after a run was
\* rejected the next call for its endpoint starts a new run.
C32_InFlightTableHoldsLiveAttempts ==
    /\ \A u \in DOMAIN connectingByUrl :
           /\ connectingByUrl[u] \in 1..Len(runs)
           /\ InFlight(runs[connectingByUrl[u]])
           /\ runs[connectingByUrl[u]].cdpUrl = u
    /\ \A r \in 1..Len(runs) :
           InFlight(runs[r])
           => /\ runs[r].cdpUrl \in DOMAIN connectingByUrl
              /\ connectingByUrl[runs[r].cdpUrl] = r
    /\ last.op = "connectBrowser"
       => /\ callers[last.caller].pc = "awaiting"
             => InFlight(runs[callers[last.caller].run])
          /\ (last.inFlight = {} /\ callers[last.caller].pc = "awaiting") => last.started

\* C32 witness: a run was rejected after its three attempts and the next call for
\* its endpoint has started a new run, the only entry of connectingByUrl.
C32_Witness ==
    /\ last.op = "connectBrowser"
    /\ last.started
    /\ Len(runs) = 2
    /\ runs[1].cdpUrl = last.cdpUrl
    /\ runs[1].phase = "rejected"
    /\ runs[1].failed = MAX_ATTEMPTS
    /\ DOMAIN connectingByUrl = {last.cdpUrl}
    /\ connectingByUrl[last.cdpUrl] = 2
    /\ callers[last.caller].run = 2

\* C33: a connectBrowser call that resolves, resolves to a connection of the
\* normalized endpoint it asked for, whatever is cached or in flight for other
\* endpoints.
C33_ResolvesToOwnEndpoint ==
    \A c \in Callers :
        (callers[c].pc = "done" /\ callers[c].result.ok)
        => /\ callers[c].cdpUrl \in {normalizeCdpUrl(u) : u \in ConnectUrls}
           /\ callers[c].result.value \in 1..Len(runs)
           /\ runs[callers[c].result.value].cdpUrl = callers[c].cdpUrl

\* C33 witness: a call for "h" resolved to a connection to "h" that it had to
\* make itself while the connection to "f" was cached.
C33_Witness ==
    \E c, d \in Callers :
        /\ callers[c].pc = "done" /\ callers[c].result.ok
        /\ callers[c].cdpUrl = URL_H
        /\ callers[c].result.value = 2
        /\ callers[d].pc = "done" /\ callers[d].result.ok
        /\ callers[d].cdpUrl = URL_F
        /\ callers[d].result.value = 1
        /\ runs[1].open /\ runs[2].open
        /\ cached = {[browser |-> 2, cdpUrl |-> URL_H]}

\* the disconnectBrowser calls that have just returned and during which no
\* connectBrowser call was running
QuietDisconnects ==
    {i \in 1..Len(tasks) :
        /\ last = [op |-> "disconnectBrowser", call |-> i]
        /\ tasks[i].pc = "resolved"
        /\ ~tasks[i].connecting
        /\ tasks[i].called = Cardinality(Called)
        /\ Awaiting = {}}

\* C34: after disconnectBrowser has returned, no connectBrowser call having run
\* during it, no connection opened by connectBrowser is open or cached.
C34_DisconnectClosesEverything ==
    QuietDisconnects # {} => (cached = {} /\ \A r \in 1..Len(runs) : ~runs[r].open)

\* after such a disconnectBrowser nothing is cached and the connection that was
\* cached is closed
DisconnectClosesCached ==
    \A i \in QuietDisconnects :
        /\ cached = {}
        /\ \A b \in tasks[i].cur : ~runs[b].open

----------------------------------------------------------------------------
(* fillFormViaPlaywright: the fields of one call, one after the other       *)

\* bound: the number of fields of a fill call
MaxFields == 3

TYPE_TEXT == <<"t", "e", "x", "t">>
TYPE_CHECKBOX == <<"c", "h", "e", "c", "k", "b", "o", "x">>
TYPE_RADIO == <<"r", "a", "d", "i", "o">>

\* FormField, its value left out: a text field and a checkbox whose refs the
\* snapshot of two buttons issued, a field with a blank ref, a field with a
\* blank type, and a field whose ref no snapshot issued
FieldKinds ==
    { [ref |-> REF_E1, type |-> TYPE_TEXT],
      [ref |-> <<" ">> \o REF_E2, type |-> TYPE_CHECKBOX],
      [ref |-> <<" ">>, type |-> TYPE_TEXT],
      [ref |-> REF_E1, type |-> <<" ">>],
      [ref |-> REF_E7, type |-> TYPE_TEXT] }

\* opts.fields
FieldLists == UNION {[1..n -> FieldKinds] : n \in 1..MaxFields}

\* the tables the snapshots of the page store: two buttons e1 and e2, or the
\* single link e1 of a frame
FillTables == {<<TABLE_DUP, {}, {"role"}>>, <<TABLE_LINK, {FRAME}, {"role"}>>}

\* the failures of locator.fill and locator.setChecked
FillFailures ==
    {f \in EngineFailures : f.what = {"closed"} \/ (f.what = {"strict"} /\ f.count = {})}

\* `fill(): field at index ${i} has empty ref`
EmptyRefMessage(i) ==
    <<"f", "i", "l", "l", "(", ")", ":", " ", "f", "i", "e", "l", "d", " ", "a", "t", " ", "i", "n", "d", "e", "x", " ">> \o ToDecimal(i) \o <<" ", "h", "a", "s", " ", "e", "m", "p", "t", "y", " ", "r", "e", "f">>

\* `fill(): field "${ref}" has empty type`
EmptyTypeMessage(ref) ==
    <<"f", "i", "l", "l", "(", ")", ":", " ", "f", "i", "e", "l", "d", " ", "\"">> \o ref \o <<"\"", " ", "h", "a", "s", " ", "e", "m", "p", "t", "y", " ", "t", "y", "p", "e">>

\* a fill that checks nothing and stops at no field: it goes on with the next
\* field whatever happened to the last one
FillField_NoStop(call, states, n) ==
    IF n > Len(call.fields) THEN [call EXCEPT !.pc = "resolved", !.index = n]
    ELSE LET ref == Trim(call.fields[n].ref)
             r == refLocator(states, ACTION_PAGE, ref)
         IN [call EXCEPT
                !.pc = "engine", !.index = n, !.locator = r.locator, !.error = {},
                !.method = "fill",
                !.tables = Append(@, states[ACTION_PAGE])]

\* one turn of the loop of fillFormViaPlaywright, for the n-th field, up to its
\* await: the call returns after the last field, throws for an empty ref, an
\* empty type or an unknown ref, and else awaits locator.setChecked or
\* locator.fill. A call that has thrown runs no further turn. `tables` keeps the
\* session refLocator read for each field
FillField(call, states, n) ==
    IF call.pc = "rejected" THEN call
    ELSE IF n > Len(call.fields) THEN [call EXCEPT !.pc = "resolved", !.index = n]
    ELSE LET ref == Trim(call.fields[n].ref)
             type == Trim(call.fields[n].type)
             r == refLocator(states, ACTION_PAGE, ref)
         IN IF ref = <<>>
            THEN [call EXCEPT !.pc = "rejected", !.index = n,
                              !.error = {RawError(EmptyRefMessage(n - 1))}]
            ELSE IF type = <<>>
            THEN [call EXCEPT !.pc = "rejected", !.index = n,
                              !.error = {RawError(EmptyTypeMessage(ref))}]
            ELSE IF r.outcome = "UnknownRef"
            THEN [call EXCEPT !.pc = "rejected", !.index = n,
                              !.error = {RawError(UnknownRefMessage(ref))},
                              !.tables = Append(@, states[ACTION_PAGE])]
            ELSE [call EXCEPT
                     !.pc = "engine", !.index = n, !.locator = r.locator,
                     !.method = IF type \in {TYPE_CHECKBOX, TYPE_RADIO}
                                THEN "setChecked" ELSE "fill",
                     !.tables = Append(@, states[ACTION_PAGE])]

\* fillFormViaPlaywright is called and suspends at getPageForTargetId
fillFormViaPlaywright(fields) ==
    /\ tasks = <<>>
    /\ tasks' = <<[kind |-> "fill", pc |-> "page", fields |-> fields, index |-> 0,
                   timeout |-> {}, locator |-> {}, method |-> "none",
                   applied |-> <<>>, tables |-> <<>>, failure |-> {}, error |-> {}]>>
    /\ last' = [op |-> "event"]
    /\ UNCHANGED <<cacheVars, buildVars, connVars>>

\* the page lookup resolves: ensurePageState, restore and normalizeTimeoutMs
\* run, then the loop up to the await of the first field
FillFindsPage ==
    /\ tasks # <<>>
    /\ tasks[1].pc = "page"
    /\ \E restored \in {RestoreSession(ensurePageState(pageStates, ACTION_PAGE),
                                       roleRefsByTarget, ACTION_PAGE, URL_H, {TARGET_A})} :
          /\ pageStates' = restored
          /\ tasks' = <<FillField([tasks[1] EXCEPT
                                      !.timeout = {normalizeTimeoutMs({}, 8000, 60000)}],
                                  restored, 1)>>
    /\ last' = [op |-> "event"]
    /\ UNCHANGED <<roleRefsByTarget, buildVars, connVars>>

\* the action on the current field resolves: the field is applied and the loop
\* runs up to the await of the next field
FillFieldApplied ==
    /\ tasks # <<>>
    /\ tasks[1].pc = "engine"
    /\ LET call == tasks[1]
           applied == [index |-> call.index, ref |-> Trim(call.fields[call.index].ref),
                       locator |-> call.locator, method |-> call.method,
                       timeout |-> call.timeout]
       IN tasks' = <<FillField([call EXCEPT !.applied = Append(@, applied)],
                               pageStates, call.index + 1)>>
    /\ last' = [op |-> "event"]
    /\ UNCHANGED <<cacheVars, buildVars, connVars>>

\* the action on the current field rejects: the call throws
\* toAIFriendlyError(err, ref)
FillFieldRejects(failure) ==
    /\ tasks # <<>>
    /\ tasks[1].pc = "engine"
    /\ LET call == tasks[1]
           ref == Trim(call.fields[call.index].ref)
       IN tasks' = <<FillField([call EXCEPT
                                  !.pc = "rejected", !.failure = {failure},
                                  !.error = {toAIFriendlyError(failure.message, ref)}],
                               pageStates, call.index + 1)>>
    /\ last' = [op |-> "event"]
    /\ UNCHANGED <<cacheVars, buildVars, connVars>>

\* a snapshot of the page completes: it stores its table
FillSnapshotStored ==
    \E content \in FillTables :
        storeRoleRefsForTarget(ACTION_PAGE, URL_H, {TARGET_A},
                               content[1], content[2], content[3])

FillCalled == \E fields \in FieldLists : fillFormViaPlaywright(fields)

FillFieldRejected == \E failure \in FillFailures : FillFieldRejects(failure)

NextFill ==
    \/ FillCalled
    \/ FillFindsPage
    \/ FillFieldApplied
    \/ FillFieldRejected
    \/ FillSnapshotStored

\* one fill call, and the snapshots of its page that complete before it and
\* while it is suspended
SpecFill == InitEmpty /\ [][NextFill]_vars

----------------------------------------------------------------------------
(* Claims about fill                                                       *)

\* the fill calls
FillCalls == {i \in 1..Len(tasks) : tasks[i].kind = "fill"}

\* C35: one fill call resolves all of its refs against a single ref table: the
\* session refLocator reads is the same for every field of the call, also when
\* a snapshot of the page completes between two fields.
C35_OneTablePerFill ==
    \A i \in FillCalls :
        \A j, k \in 1..Len(tasks[i].tables) : tasks[i].tables[j] = tasks[i].tables[k]

\* a field with an empty ref or an empty type
EmptyRefOrType(field) == Trim(field.ref) = <<>> \/ Trim(field.type) = <<>>

\* the method fill applies to a field
MethodOf(field) ==
    IF Trim(field.type) \in {TYPE_CHECKBOX, TYPE_RADIO} THEN "setChecked" ELSE "fill"

\* C37: fill applies its fields in array order and stops at the first field with
\* an empty ref or an empty type, with a ref that does not resolve, or whose
\* engine action fails: the fields before that one are applied and stay
\* applied, that field and the fields after it are not, and the call rejects
\* with the error of that field.
C37_FillStopsAtFirstFailure ==
    \A i \in FillCalls :
        LET call == tasks[i]
            n == Len(call.applied)
        IN /\ \A k \in 1..n :
                  /\ call.applied[k].index = k
                  /\ call.applied[k].ref = Trim(call.fields[k].ref)
                  /\ call.applied[k].method = MethodOf(call.fields[k])
                  /\ call.applied[k].locator # {}
           /\ \A k \in 1..Len(call.fields) : EmptyRefOrType(call.fields[k]) => n < k
           /\ call.pc = "page" => n = 0
           /\ call.pc = "engine"
              => /\ call.index = n + 1
                 /\ call.index <= Len(call.fields)
                 /\ ~EmptyRefOrType(call.fields[call.index])
           /\ call.pc = "resolved" => n = Len(call.fields)
           /\ call.pc = "rejected"
              => /\ call.index = n + 1
                 /\ call.index <= Len(call.fields)
                 /\ LET field == call.fields[call.index]
                        ref == Trim(field.ref)
                    IN IF ref = <<>>
                       THEN call.error = {RawError(EmptyRefMessage(call.index - 1))}
                       ELSE IF Trim(field.type) = <<>>
                       THEN call.error = {RawError(EmptyTypeMessage(ref))}
                       ELSE IF call.failure = {}
                       THEN call.error = {RawError(UnknownRefMessage(ref))}
                       ELSE \E failure \in call.failure :
                                call.error = {toAIFriendlyError(failure.message, ref)}

\* C37 witness: of three fields that each could be applied, the first was
\* applied, the action on the second failed, and the call is rejected with the
\* third field untouched.
C37_Witness ==
    \E i \in FillCalls :
        /\ tasks[i].pc = "rejected"
        /\ Len(tasks[i].fields) = 3
        /\ \A k \in 1..3 : ~EmptyRefOrType(tasks[i].fields[k])
        /\ tasks[i].fields[3].ref = REF_E1
        /\ tasks[i].index = 2
        /\ tasks[i].failure # {}
        /\ Len(tasks[i].applied) = 1
        /\ tasks[i].applied[1].index = 1

----------------------------------------------------------------------------
(* Eviction, purge and the live sessions                                   *)

\* (page, cdpUrl, targetId?) of the calls: p1 and p2 are two Page objects of
\* target A of the browser at "h", p2 is also used for target A of "hx"
EvictInputs ==
    { <<"p1", URL_H, {TARGET_A}>>, <<"p2", URL_H, {TARGET_A}>>, <<"p2", URL_HX, {TARGET_A}>> }

\* what the snapshots store
EvictContents == {<<TABLE_LINK, {FRAME}, {"role"}>>, <<TABLE_AI, {}, {"aria"}>>}

EvictTokens == {REF_E1, <<"@">> \o REF_E2, REF_E7}

\* the start of every ref action once its page is found: ensurePageState,
\* restoreRoleRefsForTarget, refLocator
refAction(page, cdpUrl, targetIdOpt, ref) ==
    /\ \E restored \in {RestoreSession(ensurePageState(pageStates, page),
                                       roleRefsByTarget, page, cdpUrl, targetIdOpt)} :
          /\ pageStates' = restored
          /\ last' = [op |-> "action", page |-> page, key |-> KeyOf(cdpUrl, targetIdOpt),
                      ref |-> ref, result |-> refLocator(restored, page, ref)]
    /\ UNCHANGED <<roleRefsByTarget, buildVars, connVars, tasks>>

EvictStore ==
    \E t \in EvictInputs, c \in EvictContents :
        storeRoleRefsForTarget(t[1], t[2], t[3], c[1], c[2], c[3])

EvictAction ==
    \E t \in EvictInputs, ref \in EvictTokens : refAction(t[1], t[2], t[3], ref)

NextEvict == EvictStore \/ EvictAction \/ Disconnect

\* stores that evict, disconnects that purge and ref actions, from a full cache
\* whose oldest key is the key of p1, which has a live table
SpecEvict == InitFull /\ [][NextEvict]_vars

\* C36: eviction and purge remove cache entries only. A disconnect changes no
\* session and a store changes the session of no page but the one it stores
\* for; a ref action on a page that has a live table resolves against that
\* table whatever the cache holds, and one on a page without a live table whose
\* key is not cached fails with the unknown-ref error.
C36_EvictionKeepsLiveSessions ==
    [][/\ last'.op = "disconnected" => pageStates' = pageStates
       /\ last'.op = "store"
          => \A p \in Pages \ {last'.page} : pageStates'[p] = pageStates[p]
       /\ last'.op = "action"
          => IF Session(pageStates, last'.page).roleRefs # {}
             THEN /\ Session(pageStates', last'.page) = Session(pageStates, last'.page)
                  /\ last'.result = refLocator(pageStates, last'.page, last'.ref)
             ELSE (last'.key \cap KeySet(roleRefsByTarget) = {}
                   /\ IsERef(NormalizeRef(last'.ref)))
                  => last'.result = [outcome |-> "UnknownRef", locator |-> {}]]_vars

\* C36 witness: the entry of p1 was evicted from the full cache, and a ref action
\* on p1 has resolved e1 against the live table of p1.
C36_Witness ==
    /\ last.op = "action"
    /\ last.page = "p1"
    /\ last.key = {KEY_H_A}
    /\ last.ref = REF_E1
    /\ KEY_H_A \notin KeySet(roleRefsByTarget)
    /\ Len(roleRefsByTarget) = MAX_ROLE_REFS_CACHE
    /\ Session(pageStates, "p1").roleRefs = {TABLE_DUP}
    /\ last.result.outcome = "locator"

----------------------------------------------------------------------------
(* armDialogViaPlaywright: the one-shot dialog handler                     *)

\* bound: the number of armDialog calls
MaxArmed == 1

\* bound: the number of dialogs the page opens
MaxDialogs == 2

PROMPT_TEXT == <<"m", "y", " ", "a", "n", "s", "w", "e", "r">>

\* timeoutMs as callers pass it to armDialog
DialogTimeouts == {{}, {Num(0)}, {Num(120001)}}

\* the failures of dialog.accept and dialog.dismiss
DialogFailures == {f \in EngineFailures : f.what = {"closed"}}

\* `No dialog appeared within ${timeout}ms`
NoDialogMessage(timeout) ==
    <<"N", "o", " ", "d", "i", "a", "l", "o", "g", " ", "a", "p", "p", "e", "a", "r", "e", "d", " ", "w", "i", "t", "h", "i", "n", " ">> \o ToDecimal(timeout.value) \o <<"m", "s">>

\* tasks holds the armDialog calls and the dialogs of the page, in the order in
\* which they were made and opened
ArmCalls == {i \in 1..Len(tasks) : tasks[i].kind = "armDialog"}

Dialogs == {i \in 1..Len(tasks) : tasks[i].kind = "dialog"}

\* armDialogViaPlaywright is called and suspends at getPageForTargetId
armDialogViaPlaywright(accept, promptText, timeoutMs) ==
    /\ Cardinality(ArmCalls) < MaxArmed
    /\ tasks' = Append(tasks,
           [kind |-> "armDialog", pc |-> "page", accept |-> accept,
            promptText |-> promptText, timeoutMs |-> timeoutMs, timeout |-> {},
            timer |-> "none", registered |-> FALSE, dialog |-> 0, settles |-> 0,
            error |-> {}])
    /\ last' = [op |-> "event"]
    /\ UNCHANGED <<cacheVars, buildVars, connVars>>

\* the page lookup resolves: ensurePageState and normalizeTimeoutMs run, the
\* timer is started and page.once('dialog', handler) registers the handler
ArmFindsPage(i) ==
    /\ i \in ArmCalls
    /\ tasks[i].pc = "page"
    /\ pageStates' = ensurePageState(pageStates, ACTION_PAGE)
    /\ tasks' = [tasks EXCEPT
           ![i].pc = "armed",
           ![i].timeout = {normalizeTimeoutMs(tasks[i].timeoutMs, 30000, 120000)},
           ![i].timer = "set",
           ![i].registered = TRUE]
    /\ last' = [op |-> "event"]
    /\ UNCHANGED <<roleRefsByTarget, buildVars, connVars>>

\* a timer that rejects and leaves the handler registered
TimerFires_KeepsListener(i) ==
    /\ i \in ArmCalls
    /\ tasks[i].timer = "set"
    /\ tasks' = [tasks EXCEPT
           ![i].timer = "fired",
           ![i].pc = "rejected",
           ![i].settles = @ + 1,
           ![i].error = {RawError(NoDialogMessage(CHOOSE t \in tasks[i].timeout : TRUE))}]
    /\ last' = [op |-> "event"]
    /\ UNCHANGED <<cacheVars, buildVars, connVars>>

\* the timer of call i fires: the handler is removed and the promise rejected
TimerFires(i) ==
    /\ i \in ArmCalls
    /\ tasks[i].timer = "set"
    /\ tasks' = [tasks EXCEPT
           ![i].timer = "fired",
           ![i].registered = FALSE,
           ![i].pc = "rejected",
           ![i].settles = @ + 1,
           ![i].error = {RawError(NoDialogMessage(CHOOSE t \in tasks[i].timeout : TRUE))}]
    /\ last' = [op |-> "event"]
    /\ UNCHANGED <<cacheVars, buildVars, connVars>>

\* the page opens a dialog: every handler registered with page.once is removed
\* and called with it; a handler clears its timer and awaits dialog.accept or
\* dialog.dismiss
DialogAppears ==
    /\ Cardinality(Dialogs) < MaxDialogs
    /\ LET d == Len(tasks) + 1
           called == {i \in ArmCalls : tasks[i].registered}
       IN tasks' =
              [i \in 1..Len(tasks) |->
                  IF i \in called
                  THEN [tasks[i] EXCEPT !.registered = FALSE, !.timer = "cleared",
                                        !.pc = "handling", !.dialog = d]
                  ELSE tasks[i]]
              \o <<[kind |-> "dialog", state |-> "open", text |-> {}, calledWith |-> called]>>
    /\ last' = [op |-> "event"]
    /\ UNCHANGED <<cacheVars, buildVars, connVars>>

\* dialog.accept(promptText) or dialog.dismiss() of call i resolves: resolve()
DialogActionResolves(i) ==
    /\ i \in ArmCalls
    /\ tasks[i].pc = "handling"
    /\ tasks[tasks[i].dialog].state = "open"
    /\ tasks' = [tasks EXCEPT
           ![i].pc = "resolved",
           ![i].settles = @ + 1,
           ![tasks[i].dialog].state = IF tasks[i].accept THEN "accepted" ELSE "dismissed",
           ![tasks[i].dialog].text = IF tasks[i].accept THEN tasks[i].promptText ELSE {}]
    /\ last' = [op |-> "event"]
    /\ UNCHANGED <<cacheVars, buildVars, connVars>>

\* dialog.accept or dialog.dismiss of call i rejects: reject(err)
DialogActionRejects(i, failure) ==
    /\ i \in ArmCalls
    /\ tasks[i].pc = "handling"
    /\ tasks' = [tasks EXCEPT
           ![i].pc = "rejected",
           ![i].settles = @ + 1,
           ![i].error = {RawError(failure.message)}]
    /\ last' = [op |-> "event"]
    /\ UNCHANGED <<cacheVars, buildVars, connVars>>

DialogArmed ==
    \E accept \in BOOLEAN, promptText \in {{}, {PROMPT_TEXT}}, timeoutMs \in DialogTimeouts :
        armDialogViaPlaywright(accept, promptText, timeoutMs)

DialogPageFound == \E i \in 1..Len(tasks) : ArmFindsPage(i)

DialogTimedOut == \E i \in 1..Len(tasks) : TimerFires(i)

DialogHandled == \E i \in 1..Len(tasks) : DialogActionResolves(i)

DialogActionFailed ==
    \E i \in 1..Len(tasks), failure \in DialogFailures : DialogActionRejects(i, failure)

NextDialog ==
    \/ DialogArmed
    \/ DialogPageFound
    \/ DialogTimedOut
    \/ DialogAppears
    \/ DialogHandled
    \/ DialogActionFailed

\* armDialog calls, the dialogs of the page and the timers, in any order
SpecDialog == InitEmpty /\ [][NextDialog]_vars

----------------------------------------------------------------------------
(* Claims about the dialog handler                                         *)

\* the dialogs the handler of call i was called with
HandledBy(i) == {d \in Dialogs : i \in tasks[d].calledWith}

\* call i was rejected by its timer, with the message of its timeout
TimedOut(i) ==
    /\ tasks[i].timer = "fired"
    /\ tasks[i].error = {RawError(NoDialogMessage(CHOOSE t \in tasks[i].timeout : TRUE))}
    /\ HandledBy(i) = {}

\* what holds of an armed handler whatever way it settles: it settles at most
\* once, it is called with at most one dialog, it is registered only while it
\* is armed, and a call that resolved has accepted (with the prompt text) or
\* dismissed its dialog as requested, its timer cleared
OneShot(i) ==
    /\ tasks[i].settles <= 1
    /\ tasks[i].settles = 1 <=> tasks[i].pc \in {"resolved", "rejected"}
    /\ Cardinality(HandledBy(i)) <= 1
    /\ tasks[i].registered <=> tasks[i].pc = "armed"
    /\ tasks[i].timer = "fired" => (~tasks[i].registered /\ HandledBy(i) = {})
    /\ tasks[i].pc = "resolved"
       => /\ tasks[i].timer = "cleared"
          /\ HandledBy(i) = {tasks[i].dialog}
          /\ tasks[tasks[i].dialog].state =
                 IF tasks[i].accept THEN "accepted" ELSE "dismissed"
          /\ tasks[tasks[i].dialog].text =
                 IF tasks[i].accept THEN tasks[i].promptText ELSE {}

\* C38 as claimed: an armed handler is one-shot and settles once; it resolves
\* when a dialog appeared before the timeout and was accepted or dismissed as
\* requested, and every call that did not resolve was rejected at the timeout.
C38_RejectsOnlyAtTimeout ==
    \A i \in ArmCalls : OneShot(i) /\ (tasks[i].pc = "rejected" => TimedOut(i))

\* C38 amended: an armed handler is one-shot and settles once; it resolves when
\* a dialog appeared before the timeout and was accepted or dismissed as
\* requested; it is rejected at the timeout when no dialog appeared by then,
\* and it is rejected with the error of dialog.accept or dialog.dismiss, before
\* the timeout, when that call failed; after the timeout the handler is not
\* registered and a later dialog is not handled by it.
C38_OneShotHandler ==
    \A i \in ArmCalls :
        /\ OneShot(i)
        /\ tasks[i].pc = "rejected"
           => \/ TimedOut(i)
              \/ /\ tasks[i].timer = "cleared"
                 /\ HandledBy(i) = {tasks[i].dialog}
                 /\ \E failure \in DialogFailures :
                        tasks[i].error = {RawError(failure.message)}

\* C38 witness: a handler armed with the smallest timeout was rejected by its
\* timer, and the two dialogs that the page opened afterwards are open and were
\* handled by nobody.
C38_Witness ==
    \E i \in ArmCalls :
        /\ tasks[i].pc = "rejected"
        /\ tasks[i].timeout = {Num(500)}
        /\ tasks[i].error = {RawError(<<"N", "o", " ", "d", "i", "a", "l", "o", "g", " ", "a", "p", "p", "e", "a", "r", "e", "d", " ", "w", "i", "t", "h", "i", "n", " ", "5", "0", "0", "m", "s">>)}
        /\ Cardinality(Dialogs) = 2
        /\ \A d \in Dialogs :
               /\ d > i
               /\ tasks[d].state = "open"
               /\ tasks[d].calledWith = {}

----------------------------------------------------------------------------
(* snapshotAria and formatAriaNodes: the raw accessibility tree            *)

\* bound: the number of nodes of the list Accessibility.getFullAXTree returns
MaxAxNodes == 3

\* opts.limit as callers pass it: a number given in halves (5 halves = 2.5)
Halves(h) == [nan |-> FALSE, halves |-> h]

\* Math.floor
MathFloor(x) == IF x.nan THEN NaN ELSE Num(x.halves \div 2)

\* a < b of two numbers: false when one of them is NaN
Less(a, b) == ~a.nan /\ ~b.nan /\ a.value < b.value

\* Math.max(1, Math.min(2000, Math.floor(opts.limit ?? 500)))
AxLimit(requested) ==
    MathMax(Num(1),
            MathMin(Num(2000),
                    MathFloor(IF requested = {} THEN Halves(1000)
                              ELSE CHOOSE l \in requested : TRUE)))

\* the limits callers ask for: small ones, under which a traversal is cut
SmallLimits ==
    { {[nan |-> TRUE, halves |-> 0]}, {Halves(-3)}, {Halves(0)}, {Halves(2)}, {Halves(5)},
      {Halves(8)} }

\* the default and a limit above the maximum
BigLimits == {{}, {Halves(4002)}}

\* childIds of a node: none, one, two in either order, the first node (a cycle
\* when the first node is an ancestor), a missing node, the same child twice
ChildLists ==
    { <<>>, <<"2">>, <<"3">>, <<"2", "3">>, <<"3", "2">>, <<"1">>, <<"9", "2">>, <<"2", "2">> }

\* childIds that name later nodes only: no cycle
ForwardChildLists(k) ==
    {c \in ChildLists : \A i \in 1..Len(c) : c[i] \in {ToDecimal(j)[1] : j \in (k + 1)..9}}

\* the k-th node of a list: its nodeId is "k" (the first node may lack one),
\* its role an AXValue (the first node has none)
AxNode(k, hasId, childIds) ==
    [nodeId |-> IF hasId THEN {ToDecimal(k)[1]} ELSE {},
     role |-> IF k = 1 THEN {} ELSE {ROLE_BUTTON},
     childIds |-> childIds]

\* the node lists: any childIds
AxLists ==
    UNION {{[k \in 1..n |-> AxNode(k, k > 1 \/ hasId, c[k])] :
               c \in [1..n -> ChildLists], hasId \in BOOLEAN} : n \in 0..MaxAxNodes}

\* the node lists without a cycle
AxTreeLists ==
    {nodes \in AxLists :
        \A k \in 1..Len(nodes) : nodes[k].childIds \in ForwardChildLists(k)}

\* for (const n of nodes) if (n.nodeId) byId.set(n.nodeId, n): nodeId -> node, a
\* later node replacing an earlier one of the same id
ById(nodes) ==
    LET ids == UNION {nodes[k].nodeId : k \in 1..Len(nodes)}
    IN [id \in ids |->
           nodes[CHOOSE k \in 1..Len(nodes) :
                     /\ nodes[k].nodeId = {id}
                     /\ \A j \in (k + 1)..Len(nodes) : nodes[j].nodeId # {id}]]

\* the ids that occur in some childIds
Referenced(nodes) ==
    UNION {{nodes[k].childIds[i] : i \in 1..Len(nodes[k].childIds)} : k \in 1..Len(nodes)}

\* nodes.find(n => n.nodeId && !referenced.has(n.nodeId)) ?? nodes[0], and then
\* root?.nodeId: the id of the root, or none
AxRoot(nodes) ==
    LET free == {k \in 1..Len(nodes) :
                    nodes[k].nodeId # {} /\ nodes[k].nodeId \cap Referenced(nodes) = {}}
    IN IF free # {} THEN nodes[CHOOSE k \in free : \A j \in free : k <= j].nodeId
       ELSE IF nodes = <<>> THEN {}
       ELSE nodes[1].nodeId

\* a push of the children in array order, the last child on top
PushChildren_Forward(stack, children, depth) ==
    stack \o [i \in 1..Len(children) |-> [id |-> children[i], depth |-> depth]]

\* for (let i = children.length - 1; i >= 0; i--) stack.push(...): the first
\* child ends on top of the stack
PushChildren(stack, children, depth) ==
    stack \o [i \in 1..Len(children) |->
                 [id |-> children[Len(children) + 1 - i], depth |-> depth]]

\* the loop `while (stack.length && out.length < limit)`; turns counts its
\* iterations. nodeId is kept with every output node to tell which node it is
RECURSIVE AxLoop(_, _, _, _, _)
AxLoop(byId, stack, out, limit, turns) ==
    IF stack = <<>> \/ ~Less(Num(Len(out)), limit) THEN [nodes |-> out, turns |-> turns]
    ELSE LET popped == stack[Len(stack)]
             rest == SubSeq(stack, 1, Len(stack) - 1)
         IN IF popped.id \notin DOMAIN byId
            THEN AxLoop(byId, rest, out, limit, turns + 1)
            ELSE LET n == byId[popped.id]
                     node == [ref |-> <<"a", "x">> \o ToDecimal(Len(out) + 1),
                              role |-> IF n.role = {} THEN <<"u", "n", "k", "n", "o", "w", "n">>
                                       ELSE CHOOSE r \in n.role : TRUE,
                              nodeId |-> popped.id,
                              depth |-> popped.depth]
                     children == SelectSeq(n.childIds, LAMBDA c : c \in DOMAIN byId)
                 IN AxLoop(byId, PushChildren(rest, children, popped.depth + 1),
                           Append(out, node), limit, turns + 1)

formatAriaNodes(nodes, limit) ==
    IF AxRoot(nodes) = {} THEN [nodes |-> <<>>, turns |-> 0]
    ELSE AxLoop(ById(nodes), <<[id |-> CHOOSE r \in AxRoot(nodes) : TRUE, depth |-> 0]>>,
                <<>>, limit, 0)

\* snapshotAria is called: it computes its limit and suspends at
\* getPageForTargetId
snapshotAria(requested) ==
    /\ tasks = <<>>
    /\ tasks' = <<[kind |-> "snapshotAria", pc |-> "page", requested |-> requested,
                   limit |-> AxLimit(requested), nodes |-> <<>>, result |-> {}]>>
    /\ last' = [op |-> "event"]
    /\ UNCHANGED <<cacheVars, buildVars, connVars>>

\* the page is found, ensurePageState runs, and Accessibility.getFullAXTree
\* answers with a node list: formatAriaNodes runs and the call returns
AxTreeReceived(nodes) ==
    /\ tasks # <<>>
    /\ tasks[1].pc = "page"
    /\ pageStates' = ensurePageState(pageStates, ACTION_PAGE)
    /\ tasks' = <<[tasks[1] EXCEPT !.pc = "resolved", !.nodes = nodes,
                                   !.result = {formatAriaNodes(nodes, tasks[1].limit)}]>>
    /\ last' = [op |-> "event"]
    /\ UNCHANGED <<roleRefsByTarget, buildVars, connVars>>

AriaCalled == \E requested \in SmallLimits \cup BigLimits : snapshotAria(requested)

AriaAnswered ==
    /\ tasks # <<>>
    /\ tasks[1].pc = "page"
    /\ \E nodes \in (IF tasks[1].requested \in BigLimits THEN AxTreeLists ELSE AxLists) :
           AxTreeReceived(nodes)

NextAria == AriaCalled \/ AriaAnswered

\* one snapshotAria call: every node list with a small limit, and the node
\* lists without a cycle with the default limit and with a limit above 2000
SpecAria == InitEmpty /\ [][NextAria]_vars

\* the snapshotAria calls that returned
AriaCalls == {i \in 1..Len(tasks) : tasks[i].kind = "snapshotAria" /\ tasks[i].pc = "resolved"}

\* the nodes a returned call holds
AriaOut(i) == (CHOOSE r \in tasks[i].result : TRUE).nodes

\* the children of a node that the list holds, in childIds order
KnownChildren(byId, id) == SelectSeq(byId[id].childIds, LAMBDA c : c \in DOMAIN byId)

\* the depth-first pre-order walk from a node, cut after budget nodes: the
\* node, then the walk of each of its children in turn
RECURSIVE PreOrder(_, _, _, _)
RECURSIVE PreOrderOfChildren(_, _, _, _, _)
PreOrder(byId, id, depth, budget) ==
    IF budget = 0 THEN <<>>
    ELSE <<[nodeId |-> id, depth |-> depth]>>
         \o PreOrderOfChildren(byId, KnownChildren(byId, id), 1, depth + 1, budget - 1)
PreOrderOfChildren(byId, children, i, depth, budget) ==
    IF i > Len(children) \/ budget = 0 THEN <<>>
    ELSE With(PreOrder(byId, children[i], depth, budget),
              LAMBDA first :
                  first \o PreOrderOfChildren(byId, children, i + 1, depth,
                                              budget - Len(first)))

\* the walk a call is expected to return
ExpectedWalk(i) ==
    IF AxRoot(tasks[i].nodes) = {} \/ tasks[i].limit.nan THEN <<>>
    ELSE PreOrder(ById(tasks[i].nodes), CHOOSE r \in AxRoot(tasks[i].nodes) : TRUE, 0,
                  tasks[i].limit.value)

\* C39: the traversal ends after at most limit iterations and returns at most
\* limit nodes, the limit being the requested one floored and clamped to
\* 1..2000 (500 when none is given), for every node list, with cycles and
\* missing children; the nodes are the depth-first pre-order walk from the
\* root, their refs are ax1, ax2, ... in output order, and every node but the
\* root follows its parent, one level deeper
C39_AriaTraversal ==
    \A i \in AriaCalls :
        LET out == AriaOut(i)
            limit == tasks[i].limit
            byId == ById(tasks[i].nodes)
        IN /\ ~limit.nan => limit.value \in 1..2000
           /\ tasks[i].requested = {} => limit = Num(500)
           /\ \A l \in tasks[i].requested :
                  ~l.nan /\ l.halves \in 2..4001 => limit = Num(l.halves \div 2)
           /\ ~limit.nan => Len(out) <= limit.value
           /\ Len(out) <= 2000
           /\ (CHOOSE r \in tasks[i].result : TRUE).turns = Len(out)
           /\ [k \in 1..Len(out) |-> [nodeId |-> out[k].nodeId, depth |-> out[k].depth]]
                  = ExpectedWalk(i)
           /\ \A k \in 1..Len(out) : out[k].ref = <<"a", "x">> \o ToDecimal(k)
           /\ out # <<>> => out[1].depth = 0 /\ {out[1].nodeId} = AxRoot(tasks[i].nodes)
           /\ \A k \in 2..Len(out) :
                  \E j \in 1..(k - 1) :
                      /\ out[j].depth + 1 = out[k].depth
                      /\ \E c \in 1..Len(byId[out[j].nodeId].childIds) :
                             byId[out[j].nodeId].childIds[c] = out[k].nodeId
                      /\ \A m \in (j + 1)..(k - 1) : out[m].depth >= out[k].depth

\* a list whose childIds form a cycle was walked and cut by its limit: the
\* root, its two children in childIds order, and the root again below the
\* second child
C39_Witness ==
    \E i \in AriaCalls :
        /\ tasks[i].requested = {Halves(8)}
        /\ Len(AriaOut(i)) = 4
        /\ Len(tasks[i].nodes) = 3
        /\ tasks[i].nodes[1].childIds = <<"2", "3">>
        /\ tasks[i].nodes[2].childIds = <<>>
        /\ tasks[i].nodes[3].childIds = <<"1">>
        /\ [k \in 1..4 |-> AriaOut(i)[k].nodeId] = <<"1", "2", "3", "1">>
        /\ [k \in 1..4 |-> AriaOut(i)[k].depth] = <<0, 1, 1, 2>>

----------------------------------------------------------------------------
(* The activity buffers of a page: console, errors, requests               *)

MAX_CONSOLE_MESSAGES == 500
MAX_PAGE_ERRORS == 200
MAX_NETWORK_REQUESTS == 500

\* bound: the number of page events and activity calls of a behaviour
MaxEvents == 3

ACTIVITY_PAGE == "p1"

\* `r${state.nextRequestId}`
RequestId(n) == <<"r">> \o ToDecimal(n)

\* the record the 'request' handler pushes (timestamp, method and resourceType
\* are left out); status, ok and failureText are set by later events
RequestRecord(n, url) == [id |-> RequestId(n), url |-> url, status |-> {}, ok |-> {},
                          failureText |-> {}]

\* the state ensurePageState creates, with its activity fields. requestIds
\* holds the requests seen, each named by the number its id was made of
FreshActivityState ==
    [roleRefs |-> {}, roleRefsFrameSelector |-> {}, roleRefsMode |-> {},
     console |-> <<>>, errors |-> <<>>, requests |-> <<>>, requestIds |-> {},
     nextRequestId |-> 0]

\* the state of a page after c console messages, e page errors and `given`
\* requests of which the last r are still held
ActivityStateAfter(c, e, r, given) ==
    [FreshActivityState EXCEPT
        !.console = [k \in 1..c |-> [type |-> "log", text |-> ToDecimal(k)]],
        !.errors = [k \in 1..e |-> [message |-> ToDecimal(k)]],
        !.requests = [k \in 1..r |-> RequestRecord(given - r + k, <<"/">>)],
        !.requestIds = 1..given,
        !.nextRequestId = given]

\* the activity a page starts a behaviour with: none, one record short of full
\* buffers, full buffers that have dropped requests before
ActivityStarts ==
    { ActivityStateAfter(0, 0, 0, 0),
      ActivityStateAfter(MAX_CONSOLE_MESSAGES - 1, MAX_PAGE_ERRORS - 1,
                         MAX_NETWORK_REQUESTS - 1, MAX_NETWORK_REQUESTS - 1),
      ActivityStateAfter(MAX_CONSOLE_MESSAGES, MAX_PAGE_ERRORS, MAX_NETWORK_REQUESTS,
                         MAX_NETWORK_REQUESTS + 7) }

\* a push that never drops a record
PushBounded_NoShift(buffer, record, max) == Append(buffer, record)

\* buffer.push(record); if (buffer.length > max) buffer.shift()
PushBounded(buffer, record, max) ==
    LET pushed == Append(buffer, record)
    IN IF Len(pushed) > max THEN Tail(pushed) ELSE pushed

\* ensurePageState with the activity fields: the existing state, or a new one
\* whose listeners are registered on the page
ensureActivityState(states, page) ==
    IF states[page] # {} THEN states
    ELSE [states EXCEPT ![page] = {FreshActivityState}]

\* a step on the activity of a page that has a state: the state becomes
\* `after`, the step is recorded with what it carried
ActivityStep(page, after, step) ==
    /\ last.events < MaxEvents
    /\ pageStates' = [pageStates EXCEPT ![page] = after]
    /\ last' = step @@ [page |-> page, events |-> last.events + 1]
    /\ UNCHANGED <<roleRefsByTarget, buildVars, connVars, tasks>>

\* page.on('console')
OnConsole(page, type, text) ==
    /\ pageStates[page] # {}
    /\ LET state == StateOf(pageStates, page)
           record == [type |-> type, text |-> text]
       IN ActivityStep(page,
                       {[state EXCEPT !.console =
                             PushBounded(state.console, record, MAX_CONSOLE_MESSAGES)]},
                       [op |-> "console", record |-> record])

\* page.on('pageerror')
OnPageError(page, message) ==
    /\ pageStates[page] # {}
    /\ LET state == StateOf(pageStates, page)
           record == [message |-> message]
       IN ActivityStep(page,
                       {[state EXCEPT !.errors =
                             PushBounded(state.errors, record, MAX_PAGE_ERRORS)]},
                       [op |-> "pageerror", record |-> record])

\* page.on('request')
OnRequest(page, url) ==
    /\ pageStates[page] # {}
    /\ LET state == StateOf(pageStates, page)
           n == state.nextRequestId + 1
           record == RequestRecord(n, url)
       IN ActivityStep(page,
                       {[state EXCEPT !.nextRequestId = n,
                                      !.requestIds = @ \cup {n},
                                      !.requests = PushBounded(state.requests, record,
                                                               MAX_NETWORK_REQUESTS)]},
                       [op |-> "request", record |-> record])

\* the records of a buffer with the last one whose id is `id` changed by
\* change; the buffer itself when no record has that id
WithRecord(requests, id, change(_)) ==
    LET found == {k \in 1..Len(requests) : requests[k].id = id}
    IN IF found = {} THEN requests
       ELSE [requests EXCEPT ![CHOOSE k \in found : \A j \in found : j <= k] =
                                 change(requests[CHOOSE k \in found : \A j \in found : j <= k])]

\* page.on('response') for the request numbered req
OnResponse(page, req, status) ==
    /\ pageStates[page] # {}
    /\ LET state == StateOf(pageStates, page)
       IN ActivityStep(page,
                       {IF req \notin state.requestIds THEN state
                        ELSE [state EXCEPT !.requests =
                                  WithRecord(state.requests, RequestId(req),
                                             LAMBDA rec : [rec EXCEPT !.status = {status},
                                                                      !.ok = {status < 400}])]},
                       [op |-> "response", req |-> req])

\* page.on('requestfailed') for the request numbered req
OnRequestFailed(page, req, errorText) ==
    /\ pageStates[page] # {}
    /\ LET state == StateOf(pageStates, page)
       IN ActivityStep(page,
                       {IF req \notin state.requestIds THEN state
                        ELSE [state EXCEPT !.requests =
                                  WithRecord(state.requests, RequestId(req),
                                             LAMBDA rec : [rec EXCEPT !.failureText = {errorText},
                                                                      !.ok = {FALSE}])]},
                       [op |-> "requestfailed", req |-> req])

\* page.on('close'): the state of the page is deleted
OnClose(page) ==
    /\ pageStates[page] # {}
    /\ ActivityStep(page, {}, [op |-> "close"])

\* getPageErrorsViaPlaywright once the page is found
getPageErrorsViaPlaywright(page, clear) ==
    LET state == StateOf(ensureActivityState(pageStates, page), page)
    IN ActivityStep(page,
                    {IF clear THEN [state EXCEPT !.errors = <<>>] ELSE state},
                    [op |-> "getPageErrors", result |-> state.errors])

\* getNetworkRequestsViaPlaywright, without a filter, once the page is found
getNetworkRequestsViaPlaywright(page, clear) ==
    LET state == StateOf(ensureActivityState(pageStates, page), page)
    IN ActivityStep(page,
                    {IF clear THEN [state EXCEPT !.requests = <<>>, !.requestIds = {}]
                     ELSE state},
                    [op |-> "getNetworkRequests", result |-> state.requests])

\* the requests an answer or a failure is about: the last one, the one before,
\* and one the buffer has dropped
AnsweredRequests(page) ==
    {n \in {StateOf(pageStates, page).nextRequestId,
             StateOf(pageStates, page).nextRequestId - 1,
             StateOf(pageStates, page).nextRequestId - MAX_NETWORK_REQUESTS} : n > 0}

ConsoleEvent == \E type \in {"log", "error"} : OnConsole(ACTIVITY_PAGE, type, <<"m">>)

PageErrorEvent == OnPageError(ACTIVITY_PAGE, <<"b", "o", "o", "m">>)

RequestEvent == OnRequest(ACTIVITY_PAGE, <<"/">>)

ResponseEvent ==
    /\ pageStates[ACTIVITY_PAGE] # {}
    /\ \E req \in AnsweredRequests(ACTIVITY_PAGE) : OnResponse(ACTIVITY_PAGE, req, 404)

RequestFailedEvent ==
    /\ pageStates[ACTIVITY_PAGE] # {}
    /\ \E req \in AnsweredRequests(ACTIVITY_PAGE) :
           OnRequestFailed(ACTIVITY_PAGE, req, <<"n", "e", "t", ":", ":", "E", "R", "R", "_", "F", "A", "I", "L", "E", "D">>)

CloseEvent == OnClose(ACTIVITY_PAGE)

PageErrorsRead == \E clear \in BOOLEAN : getPageErrorsViaPlaywright(ACTIVITY_PAGE, clear)

NetworkRequestsRead ==
    \E clear \in BOOLEAN : getNetworkRequestsViaPlaywright(ACTIVITY_PAGE, clear)

\* a page without a state, or with a state whose buffers are empty, nearly
\* full or full
InitActivity ==
    /\ last = [op |-> "init", events |-> 0]
    /\ BuildIdle
    /\ ConnIdle
    /\ roleRefsByTarget = <<>>
    /\ \E start \in {{}} \cup {{a} : a \in ActivityStarts} :
           pageStates = [p \in Pages |-> IF p = ACTIVITY_PAGE THEN start ELSE {}]

NextActivity ==
    \/ ConsoleEvent
    \/ PageErrorEvent
    \/ RequestEvent
    \/ ResponseEvent
    \/ RequestFailedEvent
    \/ CloseEvent
    \/ PageErrorsRead
    \/ NetworkRequestsRead

SpecActivity == InitActivity /\ [][NextActivity]_vars

\* the buffer after a record arrived: the record last, behind the records held
\* before, less the oldest one if the buffer was full
Arrived(before, record, max) ==
    (IF Len(before) = max THEN Tail(before) ELSE before) \o <<record>>

\* C40: after every event the buffers of a page hold at most 500 console
\* messages, 200 page errors and 500 requests; a record that arrives is put
\* last, the records held before keep their order, and the oldest one is
\* dropped if and only if the buffer was full; a request gets the id r<n> with n
\* one more than the number of the last id given out, the ids held are in
\* increasing order, and the number of the last id given out never decreases
C40_ActivityBuffersBounded ==
    [][\A p \in Pages :
          pageStates'[p] # {} =>
              LET after == StateOf(pageStates', p)
                  before == IF pageStates[p] = {} THEN FreshActivityState
                            ELSE StateOf(pageStates, p)
                  held == Len(after.requests)
              IN /\ Len(after.console) <= MAX_CONSOLE_MESSAGES
                 /\ Len(after.errors) <= MAX_PAGE_ERRORS
                 /\ held <= MAX_NETWORK_REQUESTS
                 /\ after.nextRequestId >= before.nextRequestId
                 /\ held <= after.nextRequestId
                 /\ after.requests # before.requests =>
                        \A k \in 1..held :
                            after.requests[k].id = RequestId(after.nextRequestId - held + k)
                 /\ last'.op = "console" =>
                        after.console = Arrived(before.console, last'.record,
                                                MAX_CONSOLE_MESSAGES)
                 /\ last'.op = "pageerror" =>
                        after.errors = Arrived(before.errors, last'.record, MAX_PAGE_ERRORS)
                 /\ last'.op = "request" =>
                        /\ after.nextRequestId = before.nextRequestId + 1
                        /\ last'.record.id = RequestId(after.nextRequestId)
                        /\ after.requests = Arrived(before.requests, last'.record,
                                                    MAX_NETWORK_REQUESTS)
                 /\ last'.op # "console" => after.console = before.console
                 /\ last'.op \notin {"pageerror", "getPageErrors"} =>
                        after.errors = before.errors]_vars

\* a request arrived at a full buffer that had dropped requests before, after
\* a console message and a page error had arrived at their full buffers: the
\* three oldest records are gone and the new request has the id r508
C40_Witness ==
    /\ last.op = "request"
    /\ last.record.id = <<"r", "5", "0", "8">>
    /\ pageStates[ACTIVITY_PAGE] # {}
    /\ LET state == StateOf(pageStates, ACTIVITY_PAGE)
       IN /\ Len(state.requests) = MAX_NETWORK_REQUESTS
          /\ state.requests[1].id = <<"r", "9">>
          /\ Len(state.console) = MAX_CONSOLE_MESSAGES
          /\ state.console[1].text = <<"2">>
          /\ state.console[MAX_CONSOLE_MESSAGES].text = <<"m">>
          /\ Len(state.errors) = MAX_PAGE_ERRORS
          /\ state.errors[1].message = <<"2">>
          /\ state.errors[MAX_PAGE_ERRORS].message = <<"b", "o", "o", "m">>

====
